---- MODULE Spec2Model ----
(***************************************************************************)
(* API integration core of sage-business-starter: the dual OAuth token     *)
(* manager (lib/tokenManager.ts), the instrumented request pipeline        *)
(* (lib/apiClient.ts), the IndexedDB log store (lib/logger.ts) and the     *)
(* secret redactor (lib/maskSecrets.ts).                                   *)
(*                                                                         *)
(* The runtime is a single-threaded event loop.  One action of the model   *)
(* is one run-to-completion piece of a handler: from a resumption (a call, *)
(* a network answer, a timer) to the next point where the handler waits    *)
(* for the network or for a timer.  The log-store transaction inside       *)
(* logApiCall is folded into the piece that awaits it, and the reactions   *)
(* of one settled promise run within the piece that settles it.            *)
(***************************************************************************)
EXTENDS Integers, Sequences, FiniteSets, TLC

(***************************************************************************)
(* Bounds of the model.                                                    *)
(***************************************************************************)
\* number of request() invocations of one run
NumCalls == 2
\* number of idle clock ticks of one run (each TickMs long)
MaxTicks == 1
\* cap on the fetches one invocation may issue beyond its retry limit
MaxSpin == 1

(***************************************************************************)
(* Program constants.                                                      *)
(***************************************************************************)
REFRESH_BUFFER_MS == 60000
DEFAULT_MAX_RETRIES == 3
RETRY_BASE_DELAY_MS == 1000
RETRYABLE_STATUS_CODES == {429, 500, 502, 503, 504}
MAX_BODY_SIZE == 204800
POLL_INTERVAL_MS == 2000
MAX_POLL_ATTEMPTS == 30
REDACTED == "***REDACTED***"
SENSITIVE_HEADERS ==
  {"authorization", "x-api-key", "api-key", "x-client-secret", "client-secret"}
SENSITIVE_FIELDS ==
  {"client_secret", "clientSecret", "access_token", "accessToken",
   "refresh_token", "refreshToken", "password", "secret", "token",
   "api_key", "apiKey"}
DEFAULT_AUDIENCE == "SBCDS/Global-External"
DEMO_PASSWORD == "sage2024"
SAGE_API_BASE_URL == "https://api.sandbox.sbc.sage.com"
SAGE_SUBSCRIPTION_API_URL == "https://api.sandbox.sbc.sage.com/slcsadapter/v2"
SAGE_TOKEN_URL == "https://id-shadow.sage.com/oauth/token"
PROXY_API_BASE_URL == "/api/sage-core"
PROXY_SUBSCRIPTION_API_URL == "/api/sage-subscriptions"
PROXY_TOKEN_URL == "/api/oauth/token"

\* granularity of the model's clock, in ms: the shortest backoff delay
TickMs == RETRY_BASE_DELAY_MS

TokenTypes == {"subscription", "tenant"}
FeatureArea ==
  {"tenants", "bank-accounts", "financial-years", "transactions", "reports",
   "auth", "dimensions", "other"}
Calls == 1..NumCalls

(***************************************************************************)
(* Strings.  A string value is a record: its text, the bearer token it     *)
(* embeds (tok, 0 for none), the client secret it embeds (sec, "" for      *)
(* none) and its shape as seen by looksLikeSecret.                         *)
(***************************************************************************)
Str(s) == [s |-> s, tok |-> 0, sec |-> "", shape |-> "plain"]
\* `Bearer ${token}`
BearerStr(k) == [s |-> "Bearer ", tok |-> k, sec |-> "", shape |-> "plain"]
\* the client secret of a credential pair
SecretStr(type) == [s |-> "", tok |-> 0, sec |-> type, shape |-> "plain"]
Marker == Str(REDACTED)

ToLowerCase(key) ==
  CASE key = "Authorization" -> "authorization"
    [] key = "Content-Type" -> "content-type"
    [] key = "Accept" -> "accept"
    [] key = "X-Idempotency-Key" -> "x-idempotency-key"
    [] key = "Retry-After" -> "retry-after"
    [] key = "Server" -> "server"
    [] OTHER -> key

\* a body: absent, JSON (the set of its leaves, each a key path and a string
\* value) or text that does not parse as JSON
NoBody == [fmt |-> "none", leaves |-> {}, text |-> Str(""), size |-> 0,
           truncated |-> FALSE]
JsonBody(leaves) == [fmt |-> "json", leaves |-> leaves, text |-> Str(""),
                     size |-> 64, truncated |-> FALSE]
TextBody(str) == [fmt |-> "text", leaves |-> {}, text |-> str, size |-> 16,
                  truncated |-> FALSE]
Leaf(path, val) == [path |-> path, val |-> val]

(***************************************************************************)
(* lib/maskSecrets.ts                                                      *)
(***************************************************************************)
looksLikeSecret(value) == value.shape \in {"jwt", "long"}

IsSensitiveKey(key) ==
  ToLowerCase(key) \in SENSITIVE_HEADERS \/ key \in SENSITIVE_FIELDS

\* index of the first sensitive key on a leaf's path, 0 when there is none
FirstSensitive(path) ==
  LET hits == {i \in 1..Len(path) : IsSensitiveKey(path[i])}
  IN IF hits = {} THEN 0 ELSE CHOOSE i \in hits : \A j \in hits : i <= j

maskLeaf(leaf) ==
  LET i == FirstSensitive(leaf.path)
  IN IF i > 0 THEN Leaf(SubSeq(leaf.path, 1, i), Marker)
     ELSE IF looksLikeSecret(leaf.val) THEN Leaf(leaf.path, Marker)
     ELSE leaf

maskObject(leaves) == {maskLeaf(l) : l \in leaves}

maskHeadersNoAuth(headers) ==
  [key \in DOMAIN headers |->
     IF ToLowerCase(key) \in (SENSITIVE_HEADERS \ {"authorization"})
     THEN Marker ELSE headers[key]]

maskHeaders(headers) ==
  [key \in DOMAIN headers |->
     IF ToLowerCase(key) \in SENSITIVE_HEADERS THEN Marker ELSE headers[key]]

maskStringSecrets(str) ==
  CASE str.s = "Bearer " -> Str("Bearer ***REDACTED***")
    [] str.s = "Basic " -> Str("Basic ***REDACTED***")
    [] str.s = "client_secret=" -> Str("client_secret=***REDACTED***")
    [] str.s = "access_token=" -> Str("access_token=***REDACTED***")
    [] str.s = "api_key=" -> Str("api_key=***REDACTED***")
    [] OTHER -> str

\* maskStringSecrets over a serialized body: the patterns are looked for in
\* the text, which for JSON means inside its string values
maskBodyStrings(body) ==
  [body EXCEPT !.leaves = {Leaf(l.path, maskStringSecrets(l.val)) : l \in @},
               !.text = maskStringSecrets(@)]

maskJsonString(body) ==
  IF body.fmt = "none" THEN TextBody(Str(""))
  ELSE IF body.fmt = "json" THEN [body EXCEPT !.leaves = maskObject(@)]
  ELSE maskBodyStrings(body)

truncateString(body, maxLength) ==
  IF body.size <= maxLength THEN body
  ELSE [body EXCEPT !.size = maxLength + 16, !.truncated = TRUE]

\* A string by its characters, for what maskJsonString does to a string
\* that is not a JSON object: a double quote, a space, a letter, and the
\* texts `api_key=` and `***REDACTED***` each taken as one character
QUOTE == "\""
Symbols == {QUOTE, " ", "a", "api_key=", REDACTED}

\* JSON.parse(chars) succeeds: over these characters the only JSON value is
\* a string literal, with white space around it
isJson(chars) ==
  \E i, j \in 1..Len(chars) :
    /\ i < j
    /\ chars[i] = QUOTE /\ chars[j] = QUOTE
    /\ \A k \in 1..Len(chars) :
         /\ (k < i \/ k > j) => chars[k] = " "
         /\ (i < k /\ k < j) => chars[k] # QUOTE

\* the string JSON.parse(chars) gives
parsed(chars) ==
  LET i == CHOOSE k \in 1..Len(chars) : chars[k] = QUOTE
      j == CHOOSE k \in 1..Len(chars) :
             chars[k] = QUOTE /\ \A l \in (k + 1)..Len(chars) : chars[l] = " "
  IN SubSeq(chars, i + 1, j - 1)

\* `[^&\s]+` matched at the head of chars: what is left after it
RECURSIVE afterMatch(_)
afterMatch(chars) ==
  IF chars = <<>> \/ Head(chars) = " " THEN chars
  ELSE afterMatch(Tail(chars))

\* maskStringSecrets by characters: of its patterns these characters can
\* spell /api_key=[^&\s]+/gi
RECURSIVE maskStringSecretsIn(_)
maskStringSecretsIn(chars) ==
  IF chars = <<>> THEN <<>>
  ELSE IF Head(chars) = "api_key=" /\ Len(chars) > 1 /\ chars[2] # " "
  THEN <<"api_key=", REDACTED>> \o maskStringSecretsIn(afterMatch(Tail(chars)))
  ELSE <<Head(chars)>> \o maskStringSecretsIn(Tail(chars))

\* maskJsonString by characters.  A string that parses is a JSON string
\* here, and maskObject of a string is the object of its characters, {}
\* for the empty string: fmt "object", chars the string.  That object
\* parses again, has no sensitive key and no value that looks like a
\* secret, and is returned as it is
maskJsonStringOf(str) ==
  IF str.fmt = "object" THEN str
  ELSE IF str.chars = <<>> THEN str
  ELSE IF isJson(str.chars)
  THEN [fmt |-> "object", chars |-> parsed(str.chars)]
  ELSE [fmt |-> "text", chars |-> maskStringSecretsIn(str.chars)]

(***************************************************************************)
(* The outside world: the token endpoint, the resource API, the callers.   *)
(***************************************************************************)
\* what the token endpoint may answer: a token living expires_in seconds,
\* a refusal, or no answer at all (fetch throws)
TokenReplies ==
  {[kind |-> "ok", status |-> 200, expires_in |-> 60],
   [kind |-> "ok", status |-> 200, expires_in |-> 61],
   [kind |-> "http", status |-> 401, expires_in |-> 0],
   [kind |-> "throw", status |-> 0, expires_in |-> 0]}

EmptyMap == [key \in {} |-> Marker]

\* what the resource API may answer
Responses ==
  {[status |-> 200, statusText |-> "OK",
    headers |-> [key \in {"content-type", "server"} |-> Str("h")],
    body |-> JsonBody({Leaf(<<"Id">>, Str("E-1"))}), bodyText |-> "{Id:E-1}"],
   [status |-> 200, statusText |-> "OK",
    headers |-> EmptyMap,
    body |-> NoBody, bodyText |-> ""],
   [status |-> 202, statusText |-> "Accepted",
    headers |-> [key \in {"retry-after"} |-> Str("7")],
    body |-> NoBody, bodyText |-> ""],
   [status |-> 202, statusText |-> "Accepted",
    headers |-> EmptyMap,
    body |-> NoBody, bodyText |-> ""],
   [status |-> 404, statusText |-> "Not Found",
    headers |-> EmptyMap,
    body |-> TextBody(Str("no such resource")), bodyText |-> "no such resource"],
   [status |-> 429, statusText |-> "Too Many Requests",
    headers |-> [key \in {"retry-after"} |-> Str("2")],
    body |-> TextBody(Str("slow down")), bodyText |-> "slow down"],
   [status |-> 503, statusText |-> "Service Unavailable",
    headers |-> EmptyMap,
    body |-> NoBody, bodyText |-> ""]}

\* what fetch may throw: the browser's TypeError 'Failed to fetch', or
\* anything else
FetchErrors ==
  {[isTypeError |-> TRUE, message |-> "Failed to fetch"],
   [isTypeError |-> FALSE, message |-> "The operation was aborted"]}

\* the options the services pass to request(): one site is a method, an
\* endpoint, whether a body is sent, and the rest of ApiRequestOptions
Site(method, endpoint, hasBody, tokenType, featureArea, tenantId, hasRetries, retries, idempotencyKey) ==
  [method |-> method, endpoint |-> endpoint, hasBody |-> hasBody,
   tokenType |-> tokenType, featureArea |-> featureArea,
   tenantId |-> tenantId, skipAuth |-> FALSE, hasRetries |-> hasRetries,
   retries |-> retries, idempotencyKey |-> idempotencyKey]

\* subscriptionService.createTenant: the initiating POST and its follow-up
createTenantSite(retries, key) ==
  Site("POST", "/tenants", TRUE, "subscription", "tenants", "", TRUE, retries,
       key)

\* bankService.createBankAccount: the initiating POST and its follow-up
createBankAccountSite(retries, key) ==
  Site("POST", "/bank-accounts", TRUE, "tenant", "bank-accounts", "T-1", TRUE,
       retries, key)

\* transactionService.createTransaction: both calls, no retries option
createTransactionSite(key) ==
  Site("POST", "/journals", TRUE, "tenant", "transactions", "T-1", FALSE, 0,
       key)

\* reportingService: the POST that runs the report
runReportSite(key) ==
  Site("POST", "/reports/run", TRUE, "tenant", "reports", "T-1", FALSE, 0, key)

\* reportingService.pollUntilReady: { ...requestOpts, method: 'GET',
\* retries: 0 }, requestOpts carrying no idempotencyKey; and a mutant that
\* forgets `retries: 0`
pollSiteDefaultRetries ==
  Site("GET", "/reports/executions", FALSE, "tenant", "reports", "T-1", FALSE,
       0, "")

pollSite ==
  Site("GET", "/reports/executions", FALSE, "tenant", "reports", "T-1", TRUE,
       0, "")

\* the options a single request() invocation is given
CallSites ==
  {createTenantSite(0, "key-1"),
   createBankAccountSite(2, "key-1"),
   runReportSite("key-2"),
   pollSite,
   [Site("GET", "/status", FALSE, "tenant", "other", "", TRUE, 1, "")
      EXCEPT !.skipAuth = TRUE]}

\* options.body of a call site
BodyOf(options) ==
  IF options.hasBody THEN JsonBody({Leaf(<<"Name">>, Str("Main"))}) ELSE NoBody

(***************************************************************************)
(* State.                                                                  *)
(***************************************************************************)
VARIABLES
  now,               \* Date.now(), in ms
  ticks,             \* idle ticks so far
  useProxy,          \* import.meta.env.DEV
  tokens,            \* tokenManager: tokens[type]
  lastRefreshTimes,  \* tokenManager: lastRefreshTimes[type], -1 for null
  refreshPromises,   \* tokenManager: refreshPromises[type], 0 for null,
                     \* else the index in tokenFetches of the promise
  tokenFetches,      \* the fetchToken() calls made so far, each one promise
  requestIdCounter,  \* tokenManager: requestIdCounter
  logStore,          \* logger: the object store 'api-calls', in key order
  latestCalls,       \* apiClient: latestCalls[featureArea]
  calls,             \* the request() invocations
  issued,            \* apiClient: the request ids generated so far
  op,                \* the service operation under way
  app,               \* AppContext: credentials, isAuthenticated
  force,             \* the forceRefreshToken() invocation
  storage,           \* IndexedDB: "working", or "failing" when the database
                     \* cannot be opened or its transactions end in error
  mask               \* the last call of a redaction function: what it was
                     \* given, what it returned, and what it returns for that

vars == <<now, ticks, useProxy, tokens, lastRefreshTimes, refreshPromises,
          tokenFetches, requestIdCounter, logStore, latestCalls, calls,
          issued, op, app, force, storage, mask>>

NoToken == [present |-> FALSE, accessToken |-> 0, expiresAt |-> 0]

NoEntry ==
  [requestId |-> [pfx |-> "", n |-> 0], timestamp |-> 0, method |-> "",
   url |-> [base |-> "", endpoint |-> ""], status |-> 0, statusText |-> "",
   requestHeaders |-> EmptyMap, requestBody |-> NoBody,
   responseHeaders |-> EmptyMap, responseBody |-> NoBody, tenantId |-> "",
   featureArea |-> "", error |-> ""]

NoResult ==
  [success |-> FALSE, data |-> NoBody, status |-> 0, statusText |-> "",
   headers |-> EmptyMap, error |-> "", requestId |-> [pfx |-> "", n |-> 0],
   logEntry |-> NoEntry]

NoOptions == CHOOSE site \in CallSites : site.skipAuth

IdleCall ==
  [pc |-> "idle", options |-> NoOptions, requestId |-> [pfx |-> "", n |-> 0],
   startTime |-> 0, requestHeaders |-> EmptyMap, attempt |-> 0,
   lastError |-> "", promise |-> 0, wakeAt |-> 0, result |-> NoResult,
   \* history of the invocation, kept for the properties
   fetchCount |-> 0, sleeps |-> <<>>, outcomes |-> <<>>, tokenCalls |-> 0]

\* no service operation
NoOp ==
  [kind |-> "none", pc |-> "idle", phase |-> "", attempt |-> 0,
   idempotencyKey |-> "", wakeAt |-> 0,
   data |-> NoBody, error |-> "",
   \* history of the operation, kept for the properties
   invocations |-> 0, polls |-> 0, sleeps |-> <<>>, keys |-> <<>>,
   results |-> <<>>]

\* a LogFilter field that is not there: -1 for a number or a Date,
\* "undefined" for a string
NoFilter ==
  [endpointSearch |-> "undefined", statusMin |-> -1, statusMax |-> -1,
   startTime |-> -1, endTime |-> -1, featureArea |-> "undefined",
   tenantId |-> "undefined"]

\* no redaction function called yet
NoMask ==
  [fn |-> "none", headers |-> EmptyMap, body |-> NoBody, chars |-> <<>>,
   once |-> [headers |-> EmptyMap, body |-> NoBody,
             str |-> [fmt |-> "text", chars |-> <<>>]],
   twice |-> [headers |-> EmptyMap, body |-> NoBody,
              str |-> [fmt |-> "text", chars |-> <<>>]]]

\* no forceRefreshToken() under way
NoForce ==
  [pc |-> "idle", type |-> "", clientId |-> "", promise |-> 0,
   result |-> FALSE,
   \* history of the invocation, kept for the properties
   cached |-> FALSE, joined |-> FALSE, fetchedWith |-> "", produced |-> FALSE]

\* the state after the modules are loaded, in a build whose
\* import.meta.env.DEV is dev
InitWith(dev) ==
  /\ now = 0
  /\ ticks = 0
  /\ useProxy = dev
  /\ tokens = [type \in TokenTypes |-> NoToken]
  /\ lastRefreshTimes = [type \in TokenTypes |-> -1]
  /\ refreshPromises = [type \in TokenTypes |-> 0]
  /\ tokenFetches = <<>>
  /\ requestIdCounter = 0
  /\ logStore = <<>>
  /\ latestCalls = [area \in FeatureArea |-> NoEntry]
  /\ calls = [c \in Calls |-> IdleCall]
  /\ issued = 0
  /\ op = NoOp
  /\ app = [credentials |-> "cred-1", isAuthenticated |-> FALSE,
            \* history, kept for the properties: the bearers that were
            \* cached when credentials changed, on logout or on clearToken
            destroyed |-> {},
            \* Admin: tokenStatus
            tokenStatus |-> [type \in TokenTypes |->
                               [valid |-> FALSE, expiresAt |-> 0]],
            \* the last getFilteredLogs(filter) and what it returned
            filter |-> NoFilter, filtered |-> <<>>]
  /\ force = NoForce
  /\ storage = "working"
  /\ mask = NoMask

\* the production build
Init == InitWith(FALSE)

\* the production build or the development build, whose requests go
\* through the local proxy
InitBuild == \E dev \in BOOLEAN : InitWith(dev)

(***************************************************************************)
(* lib/configManager.ts                                                    *)
(***************************************************************************)
getApiBaseUrl == IF useProxy THEN PROXY_API_BASE_URL ELSE SAGE_API_BASE_URL
getSubscriptionApiUrl ==
  IF useProxy THEN PROXY_SUBSCRIPTION_API_URL ELSE SAGE_SUBSCRIPTION_API_URL
getTokenUrl == IF useProxy THEN PROXY_TOKEN_URL ELSE SAGE_TOKEN_URL
getOriginalApiBaseUrl == SAGE_API_BASE_URL
getOriginalSubscriptionApiUrl == SAGE_SUBSCRIPTION_API_URL

(***************************************************************************)
(* lib/logger.ts                                                           *)
(***************************************************************************)
\* the redacted copy logApiCall hands to the object store
redactedEntry(entry) ==
  [entry EXCEPT
     !.requestHeaders = maskHeaders(@),
     !.requestBody = IF @.fmt = "none" THEN NoBody ELSE maskJsonString(@),
     !.responseBody = IF @.fmt = "none" THEN NoBody
                      ELSE truncateString(maskJsonString(@), MAX_BODY_SIZE)]

\* store.add without the unique index on requestId
storeAddNoIndex(store, entry) == Append(store, entry)

\* store.add under the unique index on requestId: a second entry with a
\* requestId already stored aborts the transaction
storeAdd(store, entry) ==
  IF \E i \in 1..Len(store) : store[i].requestId = entry.requestId
  THEN store
  ELSE Append(store, entry)

\* the object store after logApiCall(entry): openDatabase() rejects or the
\* transaction ends in error when the storage fails, and the catch block
\* only reports it on the console
logApiCall(store, entry) ==
  IF storage = "failing" THEN store
  ELSE storeAdd(store, redactedEntry(entry))

\* logApiCall's `catch (error) { console.error(...) }` lets nothing out;
\* and a mutant without the try block
logThrowsOnFailure(st) == st = "failing"

logThrows(st) == FALSE

\* getAllLogs(): store.getAll() in key order, then sorted by timestamp,
\* latest first; Array.prototype.sort is stable
getAllLogs(store) ==
  IF storage = "failing" THEN <<>> ELSE
  LET n == Len(store)
      before(j, i) ==
        \/ store[j].timestamp > store[i].timestamp
        \/ store[j].timestamp = store[i].timestamp /\ j < i
      rank(i) == 1 + Cardinality({j \in 1..n : before(j, i)})
  IN [k \in 1..n |-> store[CHOOSE i \in 1..n : rank(i) = k]]

\* String.prototype.toLowerCase on the strings searched for
toLowerCase(str) ==
  CASE str = "/Tenants" -> "/tenants"
    [] str = "/REPORTS/EXECUTIONS" -> "/reports/executions"
    [] OTHER -> str

\* url.toLowerCase().includes(search.toLowerCase()); of the substrings of
\* a URL the model has its base and its endpoint, which are in lower case
includes(url, search) ==
  \/ toLowerCase(search) = ""
  \/ toLowerCase(search) \in {url.base, url.endpoint}

\* `filter.x &&` of an optional number, and of an optional string
truthyNumber(n) == n # -1 /\ n # 0
truthyString(str) == str # "undefined" /\ str # ""
\* a Date is an object, and true whatever its time
truthyDate(date) == date # -1

\* the callback of allLogs.filter in getFilteredLogs
passes(log, filter) ==
  IF truthyString(filter.endpointSearch)
     /\ ~includes(log.url, filter.endpointSearch) THEN FALSE
  ELSE IF truthyNumber(filter.statusMin) /\ log.status < filter.statusMin
    THEN FALSE
  ELSE IF truthyNumber(filter.statusMax) /\ log.status > filter.statusMax
    THEN FALSE
  ELSE IF truthyDate(filter.startTime) /\ log.timestamp < filter.startTime
    THEN FALSE
  ELSE IF truthyDate(filter.endTime) /\ log.timestamp > filter.endTime
    THEN FALSE
  ELSE IF truthyString(filter.featureArea)
          /\ log.featureArea # filter.featureArea THEN FALSE
  ELSE IF truthyString(filter.tenantId) /\ log.tenantId # filter.tenantId
    THEN FALSE
  ELSE TRUE

\* getFilteredLogs(filter)
getFilteredLogs(store, filter) ==
  SelectSeq(getAllLogs(store), LAMBDA log : passes(log, filter))

(***************************************************************************)
(* lib/tokenManager.ts                                                     *)
(***************************************************************************)
isTokenValidInclusive(token, t) ==
  token.present /\ token.expiresAt >= t + REFRESH_BUFFER_MS

isTokenValid(token, t) ==
  token.present /\ token.expiresAt > t + REFRESH_BUFFER_MS

OAuthArea(type) ==
  IF type = "tenant" THEN "OAuth (tenant)" ELSE "OAuth (subscription)"

\* fetchToken's requestBody, serialized
tokenRequestBody(type) ==
  JsonBody({Leaf(<<"audience">>, Str(DEFAULT_AUDIENCE)),
            Leaf(<<"grant_type">>, Str("client_credentials")),
            Leaf(<<"client_id">>, Str(type)),
            Leaf(<<"client_secret">>, SecretStr(type))})

\* fetchToken's createLogEntry
tokenLogEntry(fetch, status, statusText, responseBody, error) ==
  [requestId |-> [pfx |-> "oauth", n |-> fetch.requestId],
   timestamp |-> fetch.startTime, method |-> "POST",
   url |-> [base |-> fetch.tokenUrl, endpoint |-> ""],
   status |-> status, statusText |-> statusText,
   requestHeaders |-> [key \in {"Content-Type"} |-> Str("application/json")],
   requestBody |-> maskBodyStrings(tokenRequestBody(fetch.type)),
   responseHeaders |-> EmptyMap, responseBody |-> responseBody,
   tenantId |-> "", featureArea |-> OAuthArea(fetch.type), error |-> error]

\* the entry fetchToken logs for a reply of the token endpoint
tokenReplyEntry(fetch, reply) ==
  CASE reply.kind = "ok" ->
         tokenLogEntry(fetch, reply.status, "OK",
           JsonBody({Leaf(<<"access_token">>, Str("[REDACTED]")),
                     Leaf(<<"expires_in">>, Str("seconds")),
                     Leaf(<<"token_type">>, Str("Bearer"))}), "")
    [] reply.kind = "http" ->
         tokenLogEntry(fetch, reply.status, "Error",
           JsonBody({Leaf(<<"error">>, Str("access_denied"))}),
           "Token fetch failed")
    [] OTHER ->
         tokenLogEntry(fetch, 0, "Network Error", NoBody, "Failed to fetch")

\* the TokenData fetchToken returns, NoToken for null
tokenReplyData(fetch, reply, t) ==
  IF reply.kind = "ok"
  THEN [present |-> TRUE, accessToken |-> fetch.requestId,
        expiresAt |-> t + reply.expires_in * 1000]
  ELSE NoToken

\* getTokenMetadata(type) when Date.now() is t; lastRefresh is -1 for null,
\* and the token's scope and audience are left out
getTokenMetadata(type, t) ==
  LET token == tokens[type]
      seconds == (token.expiresAt - t) \div 1000
  IN IF ~token.present
     THEN [expiresAt |-> 0, expiresIn |-> 0, isValid |-> FALSE,
           lastRefresh |-> lastRefreshTimes[type]]
     ELSE [expiresAt |-> token.expiresAt,
           expiresIn |-> IF seconds > 0 THEN seconds ELSE 0,
           isValid |-> isTokenValid(token, t),
           lastRefresh |-> lastRefreshTimes[type]]

\* result?.accessToken || null, 0 for null
accessTokenOf(token) == IF token.present THEN token.accessToken ELSE 0

(***************************************************************************)
(* lib/apiClient.ts                                                        *)
(***************************************************************************)
getBaseUrl(tokenType) ==
  IF tokenType = "subscription" THEN getSubscriptionApiUrl ELSE getApiBaseUrl

getOriginalBaseUrl(tokenType) ==
  IF tokenType = "subscription" THEN getOriginalSubscriptionApiUrl
  ELSE getOriginalApiBaseUrl

maxRetriesOf(options) ==
  IF options.hasRetries THEN options.retries ELSE DEFAULT_MAX_RETRIES

RECURSIVE Pow2(_)
Pow2(n) == IF n = 0 THEN 1 ELSE 2 * Pow2(n - 1)

retryDelayLinear(attempt) == RETRY_BASE_DELAY_MS * (attempt + 1)

retryDelay(attempt) == RETRY_BASE_DELAY_MS * Pow2(attempt)

extractResponseHeaders(headers) ==
  LET interestingHeaders ==
        {"content-type", "x-request-id", "x-correlation-id",
         "x-ratelimit-limit", "x-ratelimit-remaining", "retry-after", "date"}
      kept == {key \in DOMAIN headers : ToLowerCase(key) \in interestingHeaders}
  IN [key \in kept |-> headers[key]]

\* the request headers built before the token is asked for
initialHeaders(options) ==
  LET base == [key \in {"Content-Type", "Accept"} |-> Str("application/json")]
  IN IF options.idempotencyKey # "" /\ options.method \in {"POST", "PUT", "PATCH"}
     THEN ("X-Idempotency-Key" :> Str(options.idempotencyKey)) @@ base
     ELSE base

createLogEntry(call, status, statusText, responseHeaders, responseBody, error) ==
  [requestId |-> call.requestId, timestamp |-> now,
   method |-> call.options.method,
   url |-> [base |-> getOriginalBaseUrl(call.options.tokenType),
            endpoint |-> call.options.endpoint],
   status |-> status, statusText |-> statusText,
   requestHeaders |-> call.requestHeaders,
   requestBody |-> BodyOf(call.options),
   responseHeaders |-> responseHeaders, responseBody |-> responseBody,
   tenantId |-> call.options.tenantId,
   featureArea |-> call.options.featureArea, error |-> error]

\* a failure result: success false, data null, status 0
failureResult(call, statusText, error, logEntry) ==
  [success |-> FALSE, data |-> NoBody, status |-> 0, statusText |-> statusText,
   headers |-> EmptyMap, error |-> error, requestId |-> call.requestId,
   logEntry |-> logEntry]

\* fetch(url, ...) is issued
issueFetch(call) ==
  [call EXCEPT !.pc = "fetching", !.fetchCount = @ + 1]

\* log the entry, put it in the latest-call slot, return the result
\* (the three steps that end every return path of apiRequest)
finish(call, entry, result, store, latest) ==
  IF logThrows(storage)
  THEN \* what logApiCall throws is caught by apiRequest as a failed attempt
       [call |-> [call EXCEPT !.pc = "done",
                              !.result = failureResult(call, "Request Failed",
                                           "Failed to log API call", entry)],
        store |-> store, latest |-> latest]
  ELSE [call |-> [call EXCEPT !.pc = "done", !.result = result],
        store |-> logApiCall(store, entry),
        latest |-> [latest EXCEPT ![call.options.featureArea] = entry]]

\* `if (!token)`, with a mutant that lets a null token through
noTokenNever(token) == FALSE

noToken(token) == token = 0

\* apiRequest after `await getToken(...)` gave token (0 for null)
afterGetToken(call, token, store, latest) ==
  IF noToken(token)
  THEN LET entry == createLogEntry(call, 0, "Auth Failed", EmptyMap, NoBody,
                                   "Failed to obtain access token")
       IN finish(call, entry,
                 failureResult(call, "Auth Failed",
                               "Failed to obtain access token", entry),
                 store, latest)
  ELSE [call |-> issueFetch([call EXCEPT !.requestHeaders =
                               ("Authorization" :> BearerStr(token)) @@ @]),
        store |-> store, latest |-> latest]

(***************************************************************************)
(* Actions.                                                                *)
(***************************************************************************)
\* getToken: `finally { refreshPromises[type] = null }`; and a mutant
\* that clears the marker after a successful refresh only
finallyClearOnSuccess(promises, type, newToken) ==
  IF newToken.present THEN [promises EXCEPT ![type] = 0] ELSE promises

finallyClear(promises, type, newToken) == [promises EXCEPT ![type] = 0]

\* getToken: `if (refreshPromises[type])`
refreshInFlightNever(type) == FALSE

refreshInFlight(type) == refreshPromises[type] # 0

\* `req_${Date.now()}_${random}`: an id no earlier invocation has
generateRequestId == [pfx |-> "req", n |-> issued + 1]

\* getToken(type, ...) up to its first wait, for call c: the call and the
\* token manager afterwards
getToken(c, call, type) ==
  LET asking == [call EXCEPT !.tokenCalls = @ + 1]
      same == [promises |-> refreshPromises, fetches |-> tokenFetches,
               counter |-> requestIdCounter]
  IN IF isTokenValid(tokens[type], now)
     THEN [call |-> afterGetToken(asking, tokens[type].accessToken,
                                  logStore, latestCalls).call] @@ same
     ELSE IF refreshInFlight(type)
     THEN [call |-> [asking EXCEPT !.pc = "awaitToken",
                                   !.promise = refreshPromises[type]]] @@ same
     ELSE \* fetchToken(clientId, clientSecret, audience, type) starts
          [call |-> [asking EXCEPT !.pc = "tokenFetch",
                                   !.promise = Len(tokenFetches) + 1],
           promises |-> [refreshPromises EXCEPT
                           ![type] = Len(tokenFetches) + 1],
           fetches |-> Append(tokenFetches,
              [type |-> type, state |-> "pending", result |-> NoToken,
               startTime |-> now, requestId |-> requestIdCounter + 1,
               tokenUrl |-> getTokenUrl, owner |-> c,
               clientId |-> app.credentials, cleared |-> FALSE]),
           counter |-> requestIdCounter + 1]

\* apiRequest up to its first wait, getToken and fetchToken included
request(c, site) ==
  /\ calls[c].pc = "idle"
  /\ LET call == [calls[c] EXCEPT !.options = site,
                                  !.requestId = generateRequestId,
                                  !.startTime = now,
                                  !.requestHeaders = initialHeaders(site)]
         r == IF site.skipAuth
              THEN [call |-> issueFetch(call), promises |-> refreshPromises,
                    fetches |-> tokenFetches, counter |-> requestIdCounter]
              ELSE getToken(c, call, site.tokenType)
     IN /\ calls' = [calls EXCEPT ![c] = r.call]
        /\ refreshPromises' = r.promises
        /\ tokenFetches' = r.fetches
        /\ requestIdCounter' = r.counter
  /\ issued' = issued + 1
  /\ UNCHANGED <<mask, storage, app, force, now, ticks, useProxy, tokens, lastRefreshTimes,
                 logStore, latestCalls>>

\* a request() invocation made on its own
StartRequest(c, site) == request(c, site) /\ UNCHANGED op

\* forceRefreshToken's getToken waits on the refresh promise f of another
\* caller: `return result?.accessToken || null`, then `return token !== null`
settle(fr, f, newToken) ==
  IF fr.pc = "awaitToken" /\ fr.promise = f
  THEN [fr EXCEPT !.pc = "done", !.promise = 0,
                  !.result = accessTokenOf(newToken) # 0,
                  !.fetchedWith = tokenFetches[f].clientId,
                  !.produced = newToken.present]
  ELSE fr

\* the calls that wait in getToken on the refresh promise f
Waiters(f) ==
  {d \in Calls : calls[d].pc = "awaitToken" /\ calls[d].promise = f}

\* the reactions of a settled refresh promise run in the order they were
\* registered, each up to its next wait: getToken's continuation, then
\* apiRequest's.  acc is the calls, the log store and the latest-call slots
RECURSIVE resume(_, _, _)
resume(waiting, token, acc) ==
  IF waiting = {} THEN acc
  ELSE LET c == CHOOSE d \in waiting : \A e \in waiting : d <= e
           r == afterGetToken(acc.calls[c], token, acc.store, acc.latest)
       IN resume(waiting \ {c}, token,
                 [calls |-> [acc.calls EXCEPT ![c] = r.call],
                  store |-> r.store, latest |-> r.latest])

\* the token endpoint answers (or fetch throws): the rest of fetchToken,
\* then getToken's continuation in the call that started the refresh and in
\* the calls that joined it
TokenFetchDone(c, reply) ==
  /\ calls[c].pc = "tokenFetch"
  /\ LET f == calls[c].promise
         fetch == tokenFetches[f]
         newToken == tokenReplyData(fetch, reply, now)
         logged == logApiCall(logStore, tokenReplyEntry(fetch, reply))
         owner == afterGetToken(calls[c], accessTokenOf(newToken), logged,
                                latestCalls)
         r == resume(Waiters(f), accessTokenOf(newToken),
                     [calls |-> [calls EXCEPT ![c] = owner.call],
                      store |-> owner.store, latest |-> owner.latest])
     IN /\ tokenFetches' = [tokenFetches EXCEPT ![f].state = "resolved",
                                                ![f].result = newToken]
        /\ tokens' = [tokens EXCEPT ![fetch.type] = newToken]
        /\ lastRefreshTimes' = [lastRefreshTimes EXCEPT ![fetch.type] = now]
        /\ refreshPromises' = finallyClear(refreshPromises, fetch.type, newToken)
        /\ calls' = r.calls
        /\ logStore' = r.store
        /\ latestCalls' = r.latest
        /\ force' = settle(force, f, newToken)
  /\ UNCHANGED <<mask, storage, app, issued, op, now, ticks, useProxy, requestIdCounter>>

shouldRetryAnyError(status, attempt, maxRetries) ==
  status >= 400 /\ attempt < maxRetries

\* `RETRYABLE_STATUS_CODES.includes(response.status) && attempt < maxRetries`
shouldRetry(status, attempt, maxRetries) ==
  status \in RETRYABLE_STATUS_CODES /\ attempt < maxRetries

\* `await sleep(delay)`
startSleep(call) ==
  [call EXCEPT !.pc = "sleeping",
               !.wakeAt = now + retryDelay(call.attempt),
               !.sleeps = Append(@, retryDelay(call.attempt))]

\* the result apiRequest returns for a response it does not retry
responseResult(call, resp, responseHeaders, logEntry) ==
  LET ok == resp.status >= 200 /\ resp.status <= 299
  IN [success |-> ok,
      data |-> IF ok /\ resp.body.fmt = "json" THEN resp.body ELSE NoBody,
      status |-> resp.status, statusText |-> resp.statusText,
      headers |-> responseHeaders,
      error |-> IF ok THEN ""
                ELSE IF resp.bodyText # "" THEN resp.bodyText
                ELSE resp.statusText,
      requestId |-> call.requestId, logEntry |-> logEntry]

\* the resource API answers an attempt
Response(c, resp) ==
  /\ calls[c].pc = "fetching"
  /\ LET call == [calls[c] EXCEPT !.outcomes = Append(@, resp.status)]
         responseHeaders == extractResponseHeaders(resp.headers)
         entry == createLogEntry(call, resp.status, resp.statusText,
                                 responseHeaders, resp.body, "")
         r == finish(call, entry,
                     responseResult(call, resp, responseHeaders, entry),
                     logStore, latestCalls)
     IN /\ logStore' = r.store
        /\ latestCalls' = r.latest
        /\ calls' = [calls EXCEPT ![c] =
              IF shouldRetry(resp.status, call.attempt,
                             maxRetriesOf(call.options))
              THEN startSleep(call)
              ELSE r.call]
  /\ UNCHANGED <<mask, storage, app, force, issued, op, now, ticks, useProxy, tokens, lastRefreshTimes,
                 refreshPromises, tokenFetches, requestIdCounter>>

\* `error instanceof TypeError && error.message.includes('Failed to fetch')`
isNetworkErrorNever(err) == FALSE

isNetworkError(err) == err.isTypeError /\ err.message = "Failed to fetch"

\* `while (attempt <= maxRetries)`
loopContinues(attempt, maxRetries) == attempt <= maxRetries

\* the 'All retries exhausted' return
exhausted(call, store, latest) ==
  LET error == IF call.lastError # "" THEN call.lastError
               ELSE "Request failed after retries"
      entry == createLogEntry(call, 0, "Request Failed", EmptyMap, NoBody,
                              error)
  IN finish(call, entry, failureResult(call, "Request Failed", error, entry),
            store, latest)

\* the CORS/Network Error return
networkError(call, store, latest) ==
  LET error == "CORS restriction or network error"
      entry == createLogEntry(call, 0, "CORS/Network Error", EmptyMap, NoBody,
                              error)
  IN finish(call, entry,
            failureResult(call, "CORS/Network Error", error, entry),
            store, latest)

\* fetch throws on an attempt
FetchThrows(c, err) ==
  /\ calls[c].pc = "fetching"
  /\ LET call == [calls[c] EXCEPT
                    !.lastError = err.message,
                    !.outcomes = Append(@, IF err.isTypeError THEN 0 ELSE -1)]
         maxRetries == maxRetriesOf(call.options)
         same == [store |-> logStore, latest |-> latestCalls]
         r == IF isNetworkError(err)
              THEN networkError(call, logStore, latestCalls)
              ELSE IF call.attempt < maxRetries
              THEN [call |-> startSleep(call)] @@ same
              \* the catch block ends without a return and without attempt++
              ELSE IF loopContinues(call.attempt, maxRetries)
              THEN [call |-> issueFetch(call)] @@ same
              ELSE exhausted(call, logStore, latestCalls)
     IN /\ r.call.fetchCount <= maxRetries + 1 + MaxSpin
        /\ calls' = [calls EXCEPT ![c] = r.call]
        /\ logStore' = r.store
        /\ latestCalls' = r.latest
  /\ UNCHANGED <<mask, storage, app, force, issued, op, now, ticks, useProxy, tokens, lastRefreshTimes,
                 refreshPromises, tokenFetches, requestIdCounter>>

\* the backoff timer fires: attempt++, continue, the next fetch
Wake(c) ==
  /\ calls[c].pc = "sleeping"
  /\ now' = IF now < calls[c].wakeAt THEN calls[c].wakeAt ELSE now
  /\ LET call == [calls[c] EXCEPT !.attempt = @ + 1]
         r == IF loopContinues(call.attempt, maxRetriesOf(call.options))
              THEN [call |-> issueFetch(call), store |-> logStore,
                    latest |-> latestCalls]
              ELSE exhausted(call, logStore, latestCalls)
     IN /\ calls' = [calls EXCEPT ![c] = r.call]
        /\ logStore' = r.store
        /\ latestCalls' = r.latest
  /\ UNCHANGED <<mask, storage, app, force, issued, op, ticks, useProxy, tokens, lastRefreshTimes, refreshPromises,
                 tokenFetches, requestIdCounter>>

\* time passes
Tick ==
  /\ ticks < MaxTicks
  /\ ticks' = ticks + 1
  /\ now' = now + TickMs
  /\ UNCHANGED <<mask, storage, app, force, issued, op, useProxy, tokens, lastRefreshTimes, refreshPromises,
                 tokenFetches, requestIdCounter, logStore, latestCalls, calls>>

\* the settled fetchToken promises that no invocation in cs holds any more
\* are garbage: nothing of them remains
collect(fetches, cs) ==
  [f \in DOMAIN fetches |->
     IF fetches[f].state = "pending" \/ \E c \in Calls : cs[c].promise = f
     THEN fetches[f]
     ELSE [type |-> fetches[f].type, state |-> "collected",
           result |-> NoToken, startTime |-> 0, requestId |-> 0,
           tokenUrl |-> "", owner |-> 0, clientId |-> "",
           cleared |-> FALSE]]

\* history: clearToken was called for the types in types; the fetches of
\* these types that are under way started before it
markCleared(fetches, types) ==
  [f \in DOMAIN fetches |->
     IF fetches[f].state = "pending" /\ fetches[f].type \in types
     THEN [fetches[f] EXCEPT !.cleared = TRUE]
     ELSE fetches[f]]

\* the bearers cached for the token types in types
cachedBearers(types) ==
  {tokens[type].accessToken : type \in {t \in types : tokens[t].present}}

\* history: the bearers in bearers were cached when a token was to go
destroy(a, bearers) == [a EXCEPT !.destroyed = @ \cup bearers]

\* a clearToken that forgets its argument
ClearTokenBoth(type) ==
  /\ tokens' = [t \in TokenTypes |-> NoToken]
  /\ lastRefreshTimes' = [t \in TokenTypes |-> -1]
  /\ app' = destroy(app, cachedBearers(TokenTypes))
  /\ tokenFetches' = markCleared(tokenFetches, TokenTypes)
  /\ UNCHANGED <<mask, storage, force, issued, op, now, ticks, useProxy,
                 refreshPromises, requestIdCounter, logStore, latestCalls,
                 calls>>

\* clearToken(type)
ClearToken(type) ==
  /\ tokens' = [tokens EXCEPT ![type] = NoToken]
  /\ lastRefreshTimes' = [lastRefreshTimes EXCEPT ![type] = -1]
  /\ app' = destroy(app, cachedBearers({type}))
  /\ tokenFetches' = markCleared(tokenFetches, {type})
  /\ UNCHANGED <<mask, storage, force, issued, op, now, ticks, useProxy, refreshPromises,
                 requestIdCounter, logStore, latestCalls, calls>>

\* clearAllTokens()
ClearAllTokens ==
  /\ tokens' = [type \in TokenTypes |-> NoToken]
  /\ lastRefreshTimes' = [type \in TokenTypes |-> -1]
  /\ app' = destroy(app, cachedBearers(TokenTypes))
  /\ tokenFetches' = markCleared(tokenFetches, TokenTypes)
  /\ UNCHANGED <<mask, storage, force, issued, op, now, ticks, useProxy, refreshPromises,
                 requestIdCounter, logStore, latestCalls, calls>>

\* forceRefreshToken(type, clientId, clientSecret) up to its wait:
\* clearToken(type), then getToken, whose token is never valid here.
\* Admin's handleTestConnection makes the same two calls
ForceRefreshToken(type, clientId) ==
  /\ force.pc = "idle"
  /\ tokens' = [tokens EXCEPT ![type] = NoToken]
  /\ lastRefreshTimes' = [lastRefreshTimes EXCEPT ![type] = -1]
  /\ app' = destroy(app, cachedBearers({type}))
  /\ LET asking == [force EXCEPT !.type = type, !.clientId = clientId,
                                 !.cached = tokens[type].present,
                                 !.joined = refreshInFlight(type)]
     IN IF refreshInFlight(type)
        THEN /\ force' = [asking EXCEPT !.pc = "awaitToken",
                                        !.promise = refreshPromises[type]]
             /\ tokenFetches' = markCleared(tokenFetches, {type})
             /\ UNCHANGED <<refreshPromises, requestIdCounter>>
        ELSE /\ force' = [asking EXCEPT !.pc = "tokenFetch",
                                        !.promise = Len(tokenFetches) + 1]
             /\ refreshPromises' = [refreshPromises EXCEPT
                                     ![type] = Len(tokenFetches) + 1]
             /\ tokenFetches' = Append(tokenFetches,
                  [type |-> type, state |-> "pending", result |-> NoToken,
                   startTime |-> now, requestId |-> requestIdCounter + 1,
                   tokenUrl |-> getTokenUrl, owner |-> 0,
                   clientId |-> clientId, cleared |-> FALSE])
             /\ requestIdCounter' = requestIdCounter + 1
  /\ UNCHANGED <<mask, storage, issued, op, now, ticks, useProxy, logStore, latestCalls,
                 calls>>

\* the token endpoint answers the fetch forceRefreshToken's getToken
\* started: the rest of fetchToken, getToken's continuation, `return token
\* !== null`, then the continuations of the calls that joined the refresh
ForceFetchDone(reply) ==
  /\ force.pc = "tokenFetch"
  /\ LET f == force.promise
         fetch == tokenFetches[f]
         newToken == tokenReplyData(fetch, reply, now)
         logged == logApiCall(logStore, tokenReplyEntry(fetch, reply))
         r == resume(Waiters(f), accessTokenOf(newToken),
                     [calls |-> calls, store |-> logged,
                      latest |-> latestCalls])
     IN /\ tokenFetches' = collect([tokenFetches EXCEPT
                                      ![f].state = "resolved",
                                      ![f].result = newToken], r.calls)
        /\ tokens' = [tokens EXCEPT ![fetch.type] = newToken]
        /\ lastRefreshTimes' = [lastRefreshTimes EXCEPT ![fetch.type] = now]
        /\ refreshPromises' = finallyClear(refreshPromises, fetch.type, newToken)
        /\ force' = [force EXCEPT !.pc = "done", !.promise = 0,
                                  !.result = accessTokenOf(newToken) # 0,
                                  !.fetchedWith = fetch.clientId,
                                  !.produced = newToken.present]
        /\ calls' = r.calls
        /\ logStore' = r.store
        /\ latestCalls' = r.latest
  /\ UNCHANGED <<mask, storage, app, issued, op, now, ticks, useProxy, requestIdCounter>>

(***************************************************************************)
(* contexts/AppContext.tsx, pages/Admin.tsx                                *)
(***************************************************************************)
\* login(password)
login(password) ==
  /\ app' = IF password = DEMO_PASSWORD
            THEN [app EXCEPT !.isAuthenticated = TRUE]
            ELSE app
  /\ UNCHANGED <<mask, storage, force, issued, op, now, ticks, useProxy, tokens,
                 lastRefreshTimes, refreshPromises, tokenFetches,
                 requestIdCounter, logStore, latestCalls, calls>>

\* logout(): the session flag goes, the token manager is not called
logout ==
  /\ app.isAuthenticated
  /\ app' = destroy([app EXCEPT !.isAuthenticated = FALSE],
                    cachedBearers(TokenTypes))
  /\ UNCHANGED <<mask, storage, force, issued, op, now, ticks, useProxy, tokens,
                 lastRefreshTimes, refreshPromises, tokenFetches,
                 requestIdCounter, logStore, latestCalls, calls>>

\* Admin's updateTokenStatus: getTokenMetadata of both types, shown
updateTokenStatus ==
  /\ app.isAuthenticated
  /\ app' = [app EXCEPT !.tokenStatus =
               [type \in TokenTypes |->
                  [valid |-> getTokenMetadata(type, now).isValid,
                   expiresAt |-> getTokenMetadata(type, now).expiresAt]]]
  /\ UNCHANGED <<mask, storage, force, issued, op, now, ticks, useProxy, tokens,
                 lastRefreshTimes, refreshPromises, tokenFetches,
                 requestIdCounter, logStore, latestCalls, calls>>

\* Admin's handleSubmit: setCredentials(formData), saveConfig(formData);
\* the token manager is not called
handleSubmit(formData) ==
  /\ app.isAuthenticated
  /\ app' = destroy([app EXCEPT !.credentials = formData],
                    IF formData # app.credentials
                    THEN cachedBearers(TokenTypes) ELSE {})
  /\ UNCHANGED <<mask, storage, force, issued, op, now, ticks, useProxy, tokens,
                 lastRefreshTimes, refreshPromises, tokenFetches,
                 requestIdCounter, logStore, latestCalls, calls>>

\* request() has returned and its caller has taken the result
Return(c) ==
  /\ calls[c].pc = "done"
  /\ calls' = [calls EXCEPT ![c] = [IdleCall EXCEPT !.pc = "returned"]]
  /\ tokenFetches' = collect(tokenFetches, calls')
  /\ UNCHANGED <<mask, storage, app, force, issued, op, now, ticks, useProxy, tokens, lastRefreshTimes,
                 refreshPromises, requestIdCounter, logStore, latestCalls>>

\* the calls before c have all been made
AllStartedBefore(c) == \A d \in Calls : d < c => calls[d].pc # "idle"

\* one request() invocation, from a fresh token manager
Next ==
  \/ \E site \in CallSites : StartRequest(1, site)
  \/ \E c \in Calls, reply \in TokenReplies : TokenFetchDone(c, reply)
  \/ \E c \in Calls, resp \in Responses : Response(c, resp)
  \/ \E c \in Calls, err \in FetchErrors : FetchThrows(c, err)
  \/ \E c \in Calls : Wake(c)
  \/ \E c \in Calls : Return(c)
  \/ Tick

Spec == Init /\ [][Next]_vars

\* the call sites that leave every retry to their caller
ConcurrentSites == {site \in CallSites : maxRetriesOf(site) = 0}
ConcurrentResponses == {resp \in Responses : resp.status \in {200, 404}}

\* request() invocations that overlap, and tokens cleared under them
NextConcurrent ==
  \/ \E c \in Calls, site \in ConcurrentSites :
        AllStartedBefore(c) /\ StartRequest(c, site)
  \/ \E c \in Calls, reply \in TokenReplies : TokenFetchDone(c, reply)
  \/ \E c \in Calls, resp \in ConcurrentResponses : Response(c, resp)
  \/ \E c \in Calls : Return(c)
  \/ Tick
  \/ \E type \in TokenTypes : ClearToken(type)

SpecConcurrent == Init /\ [][NextConcurrent]_vars

\* the token manager under the application: sessions, saved credentials,
\* requests with the saved credentials and a forced refresh
Passwords == {DEMO_PASSWORD, "guess"}
Credentials == {"cred-1", "cred-2"}
TokenSites == {pollSite}
TokenResponses == {resp \in Responses : resp.status = 404}
\* the token endpoint grants a token that is valid for a moment, or refuses
TokenAnswers ==
  {reply \in TokenReplies :
     reply.kind = "http" \/ (reply.kind = "ok" /\ reply.expires_in = 61)}

\* the calls before c have all returned: the pages make their requests one
\* after the other
AllReturnedBefore(c) == \A d \in Calls : d < c => calls[d].pc = "returned"

NextTokens ==
  \/ \E password \in Passwords : login(password)
  \/ logout
  \/ \E formData \in Credentials : handleSubmit(formData)
  \/ updateTokenStatus
  \/ \E c \in Calls, site \in TokenSites :
        app.isAuthenticated /\ AllReturnedBefore(c) /\ StartRequest(c, site)
  \/ \E c \in Calls, reply \in TokenAnswers : TokenFetchDone(c, reply)
  \/ \E reply \in TokenAnswers : ForceFetchDone(reply)
  \/ \E c \in Calls, resp \in TokenResponses : Response(c, resp)
  \/ \E c \in Calls : Return(c)
  \/ \E type \in TokenTypes : ClearToken(type)
  \/ ClearAllTokens
  \/ \E type \in TokenTypes, clientId \in Credentials :
        app.isAuthenticated /\ ForceRefreshToken(type, clientId)

SpecTokens == Init /\ [][NextTokens]_vars

\* IndexedDB stops working (storage denied, the database gone), and works
\* again
StorageFails ==
  /\ storage = "working"
  /\ storage' = "failing"
  /\ UNCHANGED <<mask, app, force, issued, op, now, ticks, useProxy, tokens,
                 lastRefreshTimes, refreshPromises, tokenFetches,
                 requestIdCounter, logStore, latestCalls, calls>>

StorageRecovers ==
  /\ storage = "failing"
  /\ storage' = "working"
  /\ UNCHANGED <<mask, app, force, issued, op, now, ticks, useProxy, tokens,
                 lastRefreshTimes, refreshPromises, tokenFetches,
                 requestIdCounter, logStore, latestCalls, calls>>

\* one request() invocation over a storage that fails at any moment
NextStorage ==
  \/ \E site \in CallSites : StartRequest(1, site)
  \/ \E c \in Calls, reply \in TokenReplies : TokenFetchDone(c, reply)
  \/ \E c \in Calls, resp \in Responses : Response(c, resp)
  \/ \E c \in Calls, err \in FetchErrors : FetchThrows(c, err)
  \/ \E c \in Calls : Wake(c)
  \/ \E c \in Calls : Return(c)
  \/ StorageFails
  \/ StorageRecovers

SpecStorage == Init /\ [][NextStorage]_vars

\* clearLatestCall(featureArea)
clearLatestCall(featureArea) ==
  /\ latestCalls' = [latestCalls EXCEPT ![featureArea] = NoEntry]
  /\ UNCHANGED <<mask, storage, app, force, issued, op, now, ticks, useProxy,
                 tokens, lastRefreshTimes, refreshPromises, tokenFetches,
                 requestIdCounter, logStore, calls>>

\* clearAllLogs(): store.clear(); when the storage fails the error is
\* thrown again and the store is as it was
clearAllLogs ==
  /\ logStore' = IF storage = "failing" THEN logStore ELSE <<>>
  /\ UNCHANGED <<mask, storage, app, force, issued, op, now, ticks, useProxy,
                 tokens, lastRefreshTimes, refreshPromises, tokenFetches,
                 requestIdCounter, latestCalls, calls>>

\* getLogCount(): store.count(), and 0 when the database cannot be opened
getLogCount(store) == IF storage = "failing" THEN 0 ELSE Len(store)

\* the Developer Mode panels: overlapping request() invocations of two
\* feature areas, one of them retried, the panel's slot and the log cleared
LatestSites == {site \in CallSites : site.skipAuth} \cup {pollSite}
LatestResponses == {resp \in Responses : resp.status \in {404, 503}}
LatestTokenReplies == {reply \in TokenReplies : reply.kind = "http"}

NextLatest ==
  \/ \E c \in Calls, site \in LatestSites :
        AllStartedBefore(c) /\ StartRequest(c, site)
  \/ \E c \in Calls, reply \in LatestTokenReplies : TokenFetchDone(c, reply)
  \/ \E c \in Calls, resp \in LatestResponses : Response(c, resp)
  \/ \E c \in Calls : Wake(c)
  \/ \E c \in Calls : Return(c)
  \/ \E area \in {"other", "reports"} : clearLatestCall(area)
  \/ clearAllLogs

SpecLatest == Init /\ [][NextLatest]_vars

\* the refresh of both token types: overlapping request() invocations and
\* a forced refresh, with a token endpoint that answers every fetch in the
\* end, with a token, a refusal or a network error
NextRefresh ==
  \/ \E c \in Calls, site \in TokenSites :
        AllStartedBefore(c) /\ StartRequest(c, site)
  \/ \E c \in Calls, reply \in TokenReplies : TokenFetchDone(c, reply)
  \/ \E c \in Calls, resp \in TokenResponses : Response(c, resp)
  \/ \E c \in Calls : Return(c)
  \/ \E type \in TokenTypes : ForceRefreshToken(type, app.credentials)
  \/ \E reply \in TokenReplies : ForceFetchDone(reply)

SpecBuild == InitBuild /\ [][Next]_vars

\* the Log Store under one request() invocation, a storage that fails and
\* recovers, and the Logs page's Clear
NextStore ==
  \/ \E site \in CallSites : StartRequest(1, site)
  \/ \E c \in Calls, reply \in TokenReplies : TokenFetchDone(c, reply)
  \/ \E c \in Calls, resp \in Responses : Response(c, resp)
  \/ \E c \in Calls, err \in FetchErrors : FetchThrows(c, err)
  \/ \E c \in Calls : Wake(c)
  \/ \E c \in Calls : Return(c)
  \/ StorageFails
  \/ StorageRecovers
  \/ clearAllLogs

SpecStore == Init /\ [][NextStore]_vars

\* the two token types side by side: overlapping request() invocations of
\* both types, clearToken and forceRefreshToken of either
TypeSites == {pollSite, createTenantSite(0, "key-1")}

NextTypes ==
  \/ \E c \in Calls, site \in TypeSites :
        AllStartedBefore(c) /\ StartRequest(c, site)
  \/ \E c \in Calls, reply \in TokenAnswers : TokenFetchDone(c, reply)
  \/ \E c \in Calls, resp \in TokenResponses : Response(c, resp)
  \/ \E c \in Calls : Return(c)
  \/ \E type \in TokenTypes : ClearToken(type)
  \/ \E type \in TokenTypes : ForceRefreshToken(type, app.credentials)
  \/ \E reply \in TokenAnswers : ForceFetchDone(reply)

SpecTypes == Init /\ [][NextTypes]_vars

SpecRefresh ==
  /\ Init
  /\ [][NextRefresh]_vars
  /\ \A c \in Calls :
       WF_vars(\E reply \in TokenReplies : TokenFetchDone(c, reply))
  /\ WF_vars(\E reply \in TokenReplies : ForceFetchDone(reply))

\* a redaction function is called, and called again on what it returned
MaskHeaders(headers) ==
  /\ mask.fn = "none"
  /\ mask' = [NoMask EXCEPT
       !.fn = "maskHeaders", !.headers = headers,
       !.once.headers = maskHeaders(headers),
       !.twice.headers = maskHeaders(maskHeaders(headers))]
  /\ UNCHANGED <<storage, app, force, issued, op, now, ticks, useProxy,
                 tokens, lastRefreshTimes, refreshPromises, tokenFetches,
                 requestIdCounter, logStore, latestCalls, calls>>

MaskJsonString(body) ==
  /\ mask.fn = "none"
  /\ mask' = [NoMask EXCEPT
       !.fn = "maskJsonString", !.body = body,
       !.once.body = maskJsonString(body),
       !.twice.body = maskJsonString(maskJsonString(body))]
  /\ UNCHANGED <<storage, app, force, issued, op, now, ticks, useProxy,
                 tokens, lastRefreshTimes, refreshPromises, tokenFetches,
                 requestIdCounter, logStore, latestCalls, calls>>

MaskJsonChars(chars) ==
  /\ mask.fn = "none"
  /\ LET str == [fmt |-> "text", chars |-> chars]
     IN mask' = [NoMask EXCEPT
          !.fn = "maskJsonStringOf", !.chars = chars,
          !.once.str = maskJsonStringOf(str),
          !.twice.str = maskJsonStringOf(maskJsonStringOf(str))]
  /\ UNCHANGED <<storage, app, force, issued, op, now, ticks, useProxy,
                 tokens, lastRefreshTimes, refreshPromises, tokenFetches,
                 requestIdCounter, logStore, latestCalls, calls>>

\* what the redaction functions are given: header maps of up to three
\* headers; JSON bodies of one or two fields, at the top, in an object and
\* in an array of objects, with and without a denylisted key; strings of
\* up to MaxChars characters
MaxChars == 5
MaskHeaderValues == {Str("application/json"), BearerStr(1), Marker}
MaskHeaderMaps ==
  UNION {[keys -> MaskHeaderValues] :
           keys \in SUBSET {"Authorization", "Content-Type", "Accept"}}
MaskPaths ==
  {<<"password">>, <<"data", "token">>, <<"items", "0", "client_secret">>,
   <<"note">>, <<"data", "note">>}
MaskValues ==
  {Str("hunter2"), SecretStr("tenant"), Marker,
   [s |-> "eyJ", tok |-> 0, sec |-> "", shape |-> "jwt"]}
MaskLeaves == {Leaf(path, val) : path \in MaskPaths, val \in MaskValues}
MaskBodies ==
  {JsonBody(leaves) :
     leaves \in {pair \in {{l1, l2} : l1 \in MaskLeaves, l2 \in MaskLeaves} :
                   \A l1 \in pair, l2 \in pair : l1.path = l2.path => l1 = l2}}
MaskStrings == UNION {[1..n -> Symbols] : n \in 0..MaxChars}

NextMask ==
  \/ \E headers \in MaskHeaderMaps : MaskHeaders(headers)
  \/ \E body \in MaskBodies : MaskJsonString(body)
  \/ \E chars \in MaskStrings : MaskJsonChars(chars)

SpecMask == Init /\ [][NextMask]_vars

\* getFilteredLogs(filter) is called
GetFilteredLogs(filter) ==
  /\ app' = [app EXCEPT !.filter = filter,
                        !.filtered = getFilteredLogs(logStore, filter)]
  /\ UNCHANGED <<mask, storage, force, issued, op, now, ticks, useProxy, tokens,
                 lastRefreshTimes, refreshPromises, tokenFetches,
                 requestIdCounter, logStore, latestCalls, calls>>

\* the filters asked for: a status range with or without a feature area,
\* and each of the other fields
StatusFilters ==
  {[NoFilter EXCEPT !.statusMin = lo, !.statusMax = hi, !.featureArea = area] :
     lo \in {-1, 0, 200}, hi \in {-1, 0, 299},
     area \in {"undefined", "reports"}}
OtherFilters ==
  {[NoFilter EXCEPT !.endpointSearch = "/Tenants"],
   [NoFilter EXCEPT !.tenantId = "T-1"],
   [NoFilter EXCEPT !.startTime = TickMs],
   [NoFilter EXCEPT !.endTime = 0],
   [NoFilter EXCEPT !.startTime = 0, !.endTime = TickMs,
                    !.tenantId = "T-1"]}
LogFilters == StatusFilters \cup OtherFilters

\* the requests that fill the log: two feature areas, with and without a
\* tenant, answered or not, and token fetches that fail
LogSites == {createTenantSite(0, "key-1"), pollSite}
LogResponses == {resp \in Responses : resp.status = 404}
LogTokenReplies ==
  {reply \in TokenReplies :
     reply.kind = "throw" \/ (reply.kind = "ok" /\ reply.expires_in = 61)}

NextLogs ==
  \/ \E c \in Calls, site \in LogSites :
        AllReturnedBefore(c) /\ StartRequest(c, site)
  \/ \E c \in Calls, reply \in LogTokenReplies : TokenFetchDone(c, reply)
  \/ \E c \in Calls, resp \in LogResponses : Response(c, resp)
  \/ \E c \in Calls : Return(c)
  \/ Tick
  \/ \E filter \in LogFilters : GetFilteredLogs(filter)

SpecLogs == Init /\ [][NextLogs]_vars

(***************************************************************************)
(* services/*.ts: the operations built on request().                       *)
(***************************************************************************)
ServiceKinds ==
  {"createBankAccount", "createTenant", "createTransaction",
   "getProfitAndLoss"}

\* parseInt(value, 10) of the header values the resource API sends
parseInt(str) == IF str.s = "7" THEN 7 ELSE 2

\* the `|| '3'` of each create operation
defaultRetryAfter(kind) ==
  CASE kind = "createBankAccount" -> 3
    [] kind = "createTenant" -> 5
    [] OTHER -> 2

\* parseInt(response.headers['retry-after'] || default, 10)
retryAfterOf(kind, headers) ==
  IF "retry-after" \in DOMAIN headers
  THEN parseInt(headers["retry-after"])
  ELSE defaultRetryAfter(kind)

\* the options of the operation's next request() invocation
siteOf(o) ==
  CASE o.kind = "createBankAccount" ->
         createBankAccountSite(IF o.phase = "first" THEN 0 ELSE 2,
                               o.idempotencyKey)
    [] o.kind = "createTenant" ->
         createTenantSite(IF o.phase = "first" THEN 0 ELSE 2, o.idempotencyKey)
    [] o.kind = "createTransaction" -> createTransactionSite(o.idempotencyKey)
    [] OTHER -> IF o.phase = "first" THEN runReportSite(o.idempotencyKey)
                ELSE pollSite

\* the operation makes a request() invocation
invoke(o) ==
  LET headers == initialHeaders(siteOf(o))
  IN [o EXCEPT
        !.pc = "waiting",
        !.invocations = @ + 1,
        !.polls = IF o.phase = "polling" THEN @ + 1 ELSE @,
        !.keys = Append(@, IF "X-Idempotency-Key" \in DOMAIN headers
                           THEN headers["X-Idempotency-Key"].s ELSE "")]

resolve(o, data) == [o EXCEPT !.pc = "resolved", !.data = data]
reject(o, error) == [o EXCEPT !.pc = "rejected", !.error = error]
orElse(error, fallback) == IF error # "" THEN error ELSE fallback

\* `await sleep(...)` / setTimeout in an operation
opSleep(o, ms) ==
  [o EXCEPT !.pc = "sleeping", !.wakeAt = now + ms, !.sleeps = Append(@, ms)]

\* `response.data` is truthy
hasData(result) == result.data.fmt # "none"

\* `if (response.status === 202)` on the initiating call's response only,
\* with a mutant that asks it of every response
shouldFollowUpAlways(phase, status) == status = 202

shouldFollowUp(phase, status) == phase = "first" /\ status = 202

\* a create operation after its initiating call, and after its follow-up
afterCreate(o, result) ==
  LET plain == o.kind = "createTransaction"
  IN IF shouldFollowUp(o.phase, result.status)
     THEN [opSleep(o, retryAfterOf(o.kind, result.headers) * 1000)
             EXCEPT !.phase = "followUp"]
     ELSE IF result.success /\ (plain \/ hasData(result))
     THEN resolve(o, result.data)
     ELSE reject(o, orElse(result.error, "Failed"))

\* `response.status === 200 && response.data`
pollReady(result) == result.status = 200 /\ hasData(result)

\* pollUntilReady after one poll
afterPoll(o, result) ==
  IF pollReady(result) THEN resolve(o, result.data)
  ELSE IF result.status = 202 THEN opSleep(o, POLL_INTERVAL_MS)
  ELSE reject(o, orElse(result.error, "Unexpected status"))

\* getProfitAndLoss after the POST that runs the report
afterRun(o, result) ==
  IF ~result.success \/ ~hasData(result)
  THEN reject(o, orElse(result.error, "Failed to run P&L report"))
  ELSE [o EXCEPT !.pc = "ready", !.phase = "polling", !.attempt = 0]

\* `attempt < MAX_POLL_ATTEMPTS`, with a mutant that polls once more
pollAgainInclusive(attempt) == attempt <= MAX_POLL_ATTEMPTS

pollAgain(attempt) == attempt < MAX_POLL_ATTEMPTS

\* an operation is called: its idempotency key is generated and its
\* initiating request() is made
StartOp(kind) ==
  /\ op.kind = "none"
  /\ LET o == [op EXCEPT !.kind = kind, !.phase = "first",
                         !.idempotencyKey = "key-1"]
     IN /\ request(1, siteOf(o))
        /\ op' = invoke(o)

\* the operation's request() has returned
OpResult ==
  /\ op.pc = "waiting"
  /\ calls[1].pc = "done"
  /\ LET result == calls[1].result
         o == [op EXCEPT !.results =
                 Append(@, [status |-> result.status,
                            hasData |-> hasData(result)])]
     IN op' = IF o.kind = "getProfitAndLoss"
              THEN IF o.phase = "first" THEN afterRun(o, result)
                   ELSE afterPoll(o, result)
              ELSE afterCreate(o, result)
  /\ calls' = [calls EXCEPT ![1] = IdleCall]
  /\ tokenFetches' = collect(tokenFetches, calls')
  /\ UNCHANGED <<mask, storage, app, force, now, ticks, useProxy, tokens, lastRefreshTimes,
                 refreshPromises, requestIdCounter, logStore, latestCalls,
                 issued>>

\* the operation's timer fires; in pollUntilReady: attempt++, the loop test
OpWake ==
  /\ op.pc = "sleeping"
  /\ now' = IF now < op.wakeAt THEN op.wakeAt ELSE now
  /\ op' = IF op.phase = "polling"
           THEN IF pollAgain(op.attempt + 1)
                THEN [op EXCEPT !.pc = "ready", !.attempt = @ + 1]
                ELSE reject([op EXCEPT !.attempt = @ + 1],
                            "Report generation timed out after 60 seconds")
           ELSE [op EXCEPT !.pc = "ready"]
  /\ UNCHANGED <<mask, storage, app, force, ticks, useProxy, tokens, lastRefreshTimes,
                 refreshPromises, tokenFetches, requestIdCounter, logStore,
                 latestCalls, calls, issued>>

\* the operation's next request(): the follow-up, or a poll
OpIssue ==
  /\ op.pc = "ready"
  /\ request(1, siteOf(op))
  /\ op' = invoke(op)

\* what the resource API does under a service operation: every kind of
\* answer, one retryable status, and the network failure
ServiceResponses == {resp \in Responses : resp.status # 429}
\* the executions endpoint sends its 202 without a retry-after header
AnswersOf(endpoint) ==
  IF endpoint = pollSite.endpoint
  THEN {resp \in ServiceResponses : "retry-after" \notin DOMAIN resp.headers}
  ELSE ServiceResponses
ServiceErrors == {err \in FetchErrors : isNetworkError(err)}

\* one service operation, from a fresh token manager
NextService ==
  \/ \E kind \in ServiceKinds : StartOp(kind)
  \/ \E reply \in TokenReplies : TokenFetchDone(1, reply)
  \/ \E resp \in AnswersOf(calls[1].options.endpoint) : Response(1, resp)
  \/ \E err \in ServiceErrors : FetchThrows(1, err)
  \/ Wake(1)
  \/ OpResult
  \/ OpWake
  \/ OpIssue

SpecService == Init /\ [][NextService]_vars

(***************************************************************************)
(* What the properties read.                                               *)
(***************************************************************************)
\* the invocation is under way or has a result its caller has not taken yet
Active(call) == call.pc \notin {"idle", "returned"}

\* the bearer token in the invocation's Authorization header, 0 for none
Bearer(call) ==
  IF "Authorization" \in DOMAIN call.requestHeaders
  THEN call.requestHeaders["Authorization"].tok
  ELSE 0

\* the keys of the stored entries that carry a requestId
EntriesOf(requestId) ==
  {i \in DOMAIN logStore : logStore[i].requestId = requestId}

\* a string carries an issued bearer token or a client secret
Leaks(str) == str.tok # 0 \/ str.sec # ""
HeadersLeak(headers) == \E key \in DOMAIN headers : Leaks(headers[key])
BodyLeaks(body) == Leaks(body.text) \/ \E l \in body.leaves : Leaks(l.val)
EntryLeaks(entry) ==
  \/ HeadersLeak(entry.requestHeaders) \/ HeadersLeak(entry.responseHeaders)
  \/ BodyLeaks(entry.requestBody) \/ BodyLeaks(entry.responseBody)

\* every header on the denylist holds the marker
DenylistMasked(headers) ==
  \A key \in DOMAIN headers :
    ToLowerCase(key) \in SENSITIVE_HEADERS => headers[key] = Marker

\* every attempt so far ended the same way: o picks the outcomes meant
EveryAttempt(call, o) ==
  /\ call.outcomes # <<>>
  /\ \A i \in DOMAIN call.outcomes : call.outcomes[i] \in o

LastOutcome(call) == call.outcomes[Len(call.outcomes)]

\* call c got the answer of an attempt in this step
Answered(c) ==
  /\ calls[c].pc = "fetching"
  /\ Len(calls'[c].outcomes) = Len(calls[c].outcomes) + 1

\* the invocation ended on this step's attempt: no sleep, no further fetch
EndsHere(c) ==
  /\ calls'[c].pc = "done"
  /\ calls'[c].sleeps = calls[c].sleeps
  /\ calls'[c].fetchCount = calls[c].fetchCount

(***************************************************************************)
(* Properties.                                                             *)
(***************************************************************************)
\* C1: single-flight refresh.  At most one token-endpoint fetch per token
\* type is in flight; the calls that wait for a token of one type all wait
\* on the same fetch; and the calls served by one fetch all got the token it
\* produced: the same bearer, or all none (null) when it failed.
C1_SingleFlight ==
  /\ \A type \in TokenTypes :
       Cardinality({f \in DOMAIN tokenFetches :
                      /\ tokenFetches[f].type = type
                      /\ tokenFetches[f].state = "pending"}) <= 1
  /\ \A c, d \in Calls :
       /\ calls[c].pc \in {"tokenFetch", "awaitToken"}
       /\ calls[d].pc \in {"tokenFetch", "awaitToken"}
       /\ calls[c].options.tokenType = calls[d].options.tokenType
       => calls[c].promise = calls[d].promise
  /\ \A c \in Calls :
       calls[c].pc \in {"fetching", "sleeping", "done"} /\ calls[c].promise # 0
       => /\ tokenFetches[calls[c].promise].state = "resolved"
          /\ Bearer(calls[c]) =
               accessTokenOf(tokenFetches[calls[c].promise].result)
          /\ Bearer(calls[c]) = 0 <=> calls[c].result.statusText = "Auth Failed"

\* two calls started while no token was cached, served by one fetch with
\* the same bearer
C1_Witness ==
  /\ Len(tokenFetches) = 1
  /\ calls[1].options.tokenType = calls[2].options.tokenType
  /\ \A c \in {1, 2} : calls[c].pc = "fetching" /\ calls[c].promise = 1
  /\ Bearer(calls[1]) # 0
  /\ Bearer(calls[1]) = Bearer(calls[2])

\* C2: retry exhaustion terminates.  When every attempt of an invocation
\* with retry limit n threw an error other than 'Failed to fetch', there are
\* at most n+1 attempts, and the invocation returns after the n+1st with
\* success false, status 0, statusText 'Request Failed' and the last thrown
\* error's message.
C2_RetryExhaustionTerminates ==
  \A c \in Calls :
    LET call == calls[c]
        n == maxRetriesOf(call.options)
    IN Active(call) /\ EveryAttempt(call, {-1})
       => /\ call.fetchCount <= n + 1
          /\ Len(call.outcomes) = n + 1
             => /\ call.pc = "done"
                /\ ~call.result.success
                /\ call.result.status = 0
                /\ call.result.statusText = "Request Failed"
                /\ call.result.error = call.lastError

\* every attempt up to the retry limit has thrown such an error
C2_Witness ==
  \E c \in Calls :
    /\ Active(calls[c])
    /\ EveryAttempt(calls[c], {-1})
    /\ Len(calls[c].outcomes) = maxRetriesOf(calls[c].options) + 1
    /\ maxRetriesOf(calls[c].options) = DEFAULT_MAX_RETRIES

\* C3: retry/backoff count.  While every attempt of an invocation with
\* retries = n is answered with a retryable status, the sleep before retry
\* number k is 1000 * 2^(k-1) ms, there are never more than n+1 attempts,
\* and the invocation returns exactly after the n+1st, with success false
\* and the status of the last response.
C3_RetryBackoffCount ==
  \A c \in Calls :
    LET call == calls[c]
        n == maxRetriesOf(call.options)
    IN Active(call) /\ EveryAttempt(call, RETRYABLE_STATUS_CODES)
       => /\ call.fetchCount <= n + 1
          /\ Len(call.sleeps) =
               IF call.pc = "sleeping" THEN call.fetchCount
               ELSE call.fetchCount - 1
          /\ \A k \in DOMAIN call.sleeps : call.sleeps[k] = 1000 * Pow2(k - 1)
          /\ call.pc = "done" <=> Len(call.outcomes) = n + 1
          /\ call.pc = "done"
             => /\ ~call.result.success
                /\ call.result.status = LastOutcome(call)
                /\ now >= call.startTime + 1000 * (Pow2(n) - 1)

\* the default limit: four attempts, sleeps of 1000, 2000 and 4000 ms, 503
C3_Witness ==
  \E c \in Calls :
    /\ calls[c].pc = "done"
    /\ ~calls[c].options.hasRetries
    /\ calls[c].outcomes = <<503, 503, 503, 503>>
    /\ calls[c].fetchCount = 4
    /\ calls[c].sleeps = <<1000, 2000, 4000>>
    /\ calls[c].result.status = 503

\* C4: one log entry per logical call.  An attempt that ended in a retryable
\* status and is being retried has left no entry in the log store, and a
\* returned invocation has exactly one entry there, that of its final
\* outcome.
C4_OneEntryForFinalOutcome ==
  \A c \in Calls :
    LET call == calls[c]
        mine == EntriesOf(call.requestId)
    IN /\ call.pc = "sleeping" => mine = {}
       /\ call.pc = "done"
          => /\ Cardinality(mine) = 1
             /\ \A i \in mine :
                  /\ logStore[i].status = call.result.status
                  /\ logStore[i].statusText = call.result.statusText

\* an invocation that returned 200 after a 503 was retried
C4_Witness ==
  \E c \in Calls :
    /\ calls[c].pc = "done"
    /\ calls[c].outcomes = <<503, 200>>
    /\ calls[c].result.success

\* C5: log append on every path.  After request() returns, whatever the
\* outcome, the log store holds exactly one entry with the call's requestId,
\* and its status and error are those of the returned result.
C5_EntryMatchesResult ==
  \A c \in Calls :
    calls[c].pc = "done"
    => /\ Cardinality(EntriesOf(calls[c].requestId)) = 1
       /\ \A i \in EntriesOf(calls[c].requestId) :
            /\ logStore[i].status = calls[c].result.status
            /\ logStore[i].error = calls[c].result.error

\* an invocation that returned a non-2xx response on its first attempt
C5_Witness ==
  \E c \in Calls :
    /\ calls[c].pc = "done"
    /\ calls[c].outcomes = <<404>>
    /\ calls[c].result.error # ""

\* C6: redaction before persistence.  No entry of the log store, of a
\* resource call or of a token-endpoint call, has a denylisted request
\* header that is not the marker, or carries an issued bearer token or a
\* client secret in a header or a body.
C6_StoreRedacted ==
  \A i \in DOMAIN logStore :
    /\ DenylistMasked(logStore[i].requestHeaders)
    /\ ~EntryLeaks(logStore[i])

\* the store holds the entry of a token fetch that sent a client secret and
\* the entry of a resource call that sent the bearer it produced
C6_Witness ==
  /\ \E i \in DOMAIN logStore :
       /\ logStore[i].requestId.pfx = "oauth"
       /\ Leaf(<<"client_secret">>, Marker) \in logStore[i].requestBody.leaves
  /\ \E i \in DOMAIN logStore, c \in Calls :
       /\ logStore[i].requestId = calls[c].requestId
       /\ Bearer(calls[c]) # 0
       /\ logStore[i].requestHeaders["Authorization"] = Marker

\* C7: no unredacted content reaches display.  The entry in a feature
\* area's latest-call slot, and the logEntry of a returned result, never
\* contain the bearer token: their Authorization header is the marker.
C7_DisplayRedacted ==
  /\ \A area \in FeatureArea :
       /\ DenylistMasked(latestCalls[area].requestHeaders)
       /\ ~EntryLeaks(latestCalls[area])
  /\ \A c \in Calls :
       calls[c].pc = "done"
       => /\ DenylistMasked(calls[c].result.logEntry.requestHeaders)
          /\ ~EntryLeaks(calls[c].result.logEntry)

\* an authorized call has returned and its entry is in the latest-call slot
C7_Witness ==
  \E c \in Calls :
    /\ calls[c].pc = "done"
    /\ Bearer(calls[c]) # 0
    /\ latestCalls[calls[c].options.featureArea].requestId = calls[c].requestId

\* C8: expiry buffer.  A cached token is valid iff now + 60000 < expiresAt
\* (an absent token is not), and a call that asks for a token goes on at
\* once with the cached bearer, no token fetch made, exactly when the token
\* is valid; otherwise it waits for a refresh.
C8_ExpiryBuffer ==
  [][\A c \in Calls :
       calls[c].pc = "idle" /\ Active(calls'[c]) /\ ~calls'[c].options.skipAuth
       => LET token == tokens[calls'[c].options.tokenType]
              valid == token.present /\ now + 60000 < token.expiresAt
          IN /\ isTokenValid(token, now) <=> valid
             /\ valid => /\ calls'[c].pc = "fetching"
                         /\ Bearer(calls'[c]) = token.accessToken
                         /\ tokenFetches' = tokenFetches
             /\ ~valid => /\ calls'[c].pc \in {"tokenFetch", "awaitToken"}
                          /\ Bearer(calls'[c]) = 0]_vars

\* a call served from the cache 61000 ms before the token's expiry
C8_Witness ==
  \E c \in Calls :
    /\ calls[c].pc = "fetching"
    /\ calls[c].promise = 0
    /\ Bearer(calls[c]) # 0
    /\ tokens[calls[c].options.tokenType].expiresAt = calls[c].startTime + 61000
    /\ now = calls[c].startTime

\* C9: non-retryable short-circuit.  A response whose status is not in
\* {429, 500, 502, 503, 504} ends the invocation on that attempt, with no
\* sleep and no further fetch, success = (200 <= status <= 299), and data
\* null when success is false.
C9_NonRetryableEnds ==
  [][\A c \in Calls :
       /\ Answered(c)
       /\ LastOutcome(calls'[c]) > 0
       /\ LastOutcome(calls'[c]) \notin {429, 500, 502, 503, 504}
       => /\ EndsHere(c)
          /\ calls'[c].result.status = LastOutcome(calls'[c])
          /\ calls'[c].result.success
               <=> LastOutcome(calls'[c]) \in 200..299
          /\ ~calls'[c].result.success => calls'[c].result.data = NoBody]_vars

\* a 404 on the first attempt of a call that had retries left
C9_Witness ==
  \E c \in Calls :
    /\ calls[c].pc = "done"
    /\ calls[c].outcomes = <<404>>
    /\ maxRetriesOf(calls[c].options) = DEFAULT_MAX_RETRIES
    /\ calls[c].sleeps = <<>>
    /\ calls[c].fetchCount = 1
    /\ ~calls[c].result.success

\* C10, as the code has it: when fetch throws the TypeError 'Failed to
\* fetch', the invocation ends on that attempt, whatever the retry limit,
\* with success false, status 0 and statusText 'CORS/Network Error'.
C10_FailedToFetchEnds ==
  [][\A c \in Calls :
       Answered(c) /\ LastOutcome(calls'[c]) = 0
       => /\ EndsHere(c)
          /\ ~calls'[c].result.success
          /\ calls'[c].result.status = 0
          /\ calls'[c].result.statusText = "CORS/Network Error"]_vars

\* 'Failed to fetch' on the first attempt of a call that had retries left
C10_Witness ==
  \E c \in Calls :
    /\ calls[c].pc = "done"
    /\ calls[c].outcomes = <<0>>
    /\ maxRetriesOf(calls[c].options) = DEFAULT_MAX_RETRIES
    /\ calls[c].fetchCount = 1
    /\ calls[c].result.statusText = "CORS/Network Error"

\* C10, as the claim has it: whatever fetch throws, the invocation ends on
\* that attempt with statusText 'CORS/Network Error'.
C10_AnyThrowEnds ==
  [][\A c \in Calls :
       Answered(c) /\ LastOutcome(calls'[c]) \in {0, -1}
       => /\ EndsHere(c)
          /\ ~calls'[c].result.success
          /\ calls'[c].result.status = 0
          /\ calls'[c].result.statusText = "CORS/Network Error"]_vars

\* C11: auth failure short-circuit.  Unless skipAuth is set, an invocation
\* asks getToken exactly once, however many attempts follow, and when the
\* token came back null it has returned success false, status 0, statusText
\* 'Auth Failed' without a single resource fetch; with skipAuth getToken is
\* not asked and no Authorization header is attached.
C11_AuthFailureShortCircuit ==
  \A c \in Calls :
    LET call == calls[c]
        gotNull == /\ call.promise # 0
                   /\ tokenFetches[call.promise].state = "resolved"
                   /\ ~tokenFetches[call.promise].result.present
    IN Active(call)
       => IF call.options.skipAuth
          THEN /\ call.tokenCalls = 0
               /\ "Authorization" \notin DOMAIN call.requestHeaders
          ELSE /\ call.tokenCalls = 1
               /\ gotNull => /\ call.pc = "done"
                             /\ call.fetchCount = 0
                             /\ ~call.result.success
                             /\ call.result.status = 0
                             /\ call.result.statusText = "Auth Failed"
               /\ call.fetchCount > 0 => Bearer(call) # 0

\* a call with the default retry limit has returned 'Auth Failed'
C11_Witness ==
  \E c \in Calls :
    /\ calls[c].pc = "done"
    /\ maxRetriesOf(calls[c].options) = DEFAULT_MAX_RETRIES
    /\ calls[c].result.statusText = "Auth Failed"
    /\ calls[c].tokenCalls = 1
    /\ calls[c].fetchCount = 0

\* the results of the polls of getProfitAndLoss so far
Polls == SubSeq(op.results, 2, Len(op.results))

\* polls 1..k-1 gave 202
Pending(k) == \A i \in 1..(k - 1) : Polls[i].status = 202

Polling == op.kind = "getProfitAndLoss" /\ op.phase = "polling"

C14_IdempotencyKeyReuse ==
  /\ \A i \in DOMAIN op.keys : op.keys[i] = op.idempotencyKey
  /\ \A c \in Calls :
       Active(calls[c])
       => ("X-Idempotency-Key" \in DOMAIN calls[c].requestHeaders
           <=> /\ calls[c].options.method \in {"POST", "PUT", "PATCH"}
               /\ calls[c].options.idempotencyKey # "")

\* a report operation has made its initiating POST and a poll
C14_Witness ==
  /\ Polling
  /\ op.invocations = 2
  /\ op.keys[1] = op.idempotencyKey

\* the wait of a create operation after a 202 that names none
CreateDefault(kind) ==
  CASE kind = "createBankAccount" -> 3
    [] kind = "createTenant" -> 5
    [] kind = "createTransaction" -> 2

\* the single sleep of a create operation whose initiating call got 202
FollowUpSleep(default) ==
  <<1000 * (IF "retry-after" \in DOMAIN latestCalls[siteOf(op).featureArea].responseHeaders
            THEN 7 ELSE default)>>

Creating == op.kind \in ServiceKinds \ {"getProfitAndLoss"}

\* C15, as the code has it: a create operation makes at most two request()
\* invocations with the same idempotency key; it sleeps only after a 202 to
\* the initiating call, once, for the retry-after seconds, or for 3
\* (createBankAccount), 5 (createTenant) or 2 (createTransaction) seconds
\* when the header is absent; and the result of the follow-up ends the
\* operation, 202 included.
C15_RetryAfterOnce ==
  Creating
  => /\ op.invocations <= 2
     /\ \A i \in DOMAIN op.keys : op.keys[i] = op.idempotencyKey
     /\ Len(op.sleeps) = IF op.results # <<>> /\ op.results[1].status = 202
                         THEN 1 ELSE 0
     /\ op.pc = "sleeping" => op.sleeps = FollowUpSleep(CreateDefault(op.kind))
     /\ op.results # <<>> /\ op.results[1].status # 202
        => op.pc \in {"resolved", "rejected"}
     /\ Len(op.results) = 2 => op.pc \in {"resolved", "rejected"}

\* createTenant got 202 without the header, slept 5 s, and got 202 again
C15_Witness ==
  /\ op.kind = "createTenant"
  /\ Len(op.results) = 2
  /\ op.results[1].status = 202
  /\ op.results[2].status = 202
  /\ op.sleeps = <<5000>>
  /\ op.invocations = 2
  /\ op.pc = "rejected"

\* C15, as the claim has it: the wait is 3 seconds whenever the header is
\* absent.
C15_DefaultThree ==
  Creating /\ op.pc = "sleeping" => op.sleeps = FollowUpSleep(3)

\* C16: token destruction.  A bearer that was cached when a token was
\* cleared, when other credentials were saved or on logout is cached no
\* more, and no getToken that returns afterwards returns it.
C16_TokenDestruction ==
  [][/\ \A type \in TokenTypes :
          tokens'[type].present =>
            tokens'[type].accessToken \notin app'.destroyed
     /\ \A c \in Calls :
          Bearer(calls[c]) = 0 /\ Bearer(calls'[c]) # 0 =>
            Bearer(calls'[c]) \notin app.destroyed]_vars

\* a request sends a bearer that was cached when the credentials changed
\* or the session ended
C16_Witness ==
  \E c \in Calls :
    /\ Active(calls[c])
    /\ Bearer(calls[c]) \in app.destroyed

\* C17: forceRefreshToken clears the cached token of its type and makes a
\* token fetch of its own with the credentials it was given, and returns
\* true exactly when that fetch produced a token - whether a valid token
\* was cached or another refresh of the type was in flight when it was
\* called.
C17_ForceRefreshIsFresh ==
  /\ force.pc = "tokenFetch" => ~tokens[force.type].present
  /\ force.pc = "done" =>
       /\ ~force.joined
       /\ force.fetchedWith = force.clientId
       /\ force.result = force.produced

\* forceRefreshToken was called with credentials other than the saved ones
\* while a request's refresh was in flight, and has returned true
C17_Witness ==
  /\ force.pc = "done"
  /\ force.joined
  /\ force.result
  /\ force.fetchedWith # force.clientId

\* the instants at which the metadata may be read: now, and after the
\* token has expired
ReadInstants == {now, now + 61 * 1000 + 500}

\* a refresh of type has just settled without a token
RefreshFailed(type) ==
  /\ refreshPromises[type] # 0
  /\ refreshPromises'[type] = 0
  /\ ~tokens'[type].present

\* C18: getTokenMetadata is a pure read: reading it changes nothing of
\* the token manager.  Its lastRefresh is the instant of the last
\* successful refresh: a refresh that ends without a token leaves it as it
\* was.  Its expiresIn is never negative, and 0 when no token is cached.
C18_TokenMetadata ==
  [][/\ app'.tokenStatus # app.tokenStatus =>
          UNCHANGED <<tokens, lastRefreshTimes, refreshPromises, tokenFetches>>
     /\ \A type \in TokenTypes :
          RefreshFailed(type) =>
            getTokenMetadata(type, now)'.lastRefresh =
              getTokenMetadata(type, now).lastRefresh
     /\ \A type \in TokenTypes, t \in ReadInstants :
          /\ getTokenMetadata(type, t).expiresIn >= 0
          /\ ~tokens[type].present =>
               getTokenMetadata(type, t).expiresIn = 0]_vars

\* a refresh has failed and the metadata show it as the last refresh
C18_Witness ==
  \E type \in TokenTypes :
    /\ ~tokens[type].present
    /\ getTokenMetadata(type, now).lastRefresh >= 0

\* the entry satisfies every predicate the filter supplies
Satisfies(log, filter) ==
  /\ filter.endpointSearch # "undefined" =>
       includes(log.url, filter.endpointSearch)
  /\ filter.statusMin # -1 => log.status >= filter.statusMin
  /\ filter.statusMax # -1 => log.status <= filter.statusMax
  /\ filter.startTime # -1 => log.timestamp >= filter.startTime
  /\ filter.endTime # -1 => log.timestamp <= filter.endTime
  /\ filter.featureArea # "undefined" => log.featureArea = filter.featureArea
  /\ filter.tenantId # "undefined" => log.tenantId = filter.tenantId

\* C19: filter composition.  getFilteredLogs(filter) returns exactly the
\* stored entries that satisfy every predicate the filter supplies (URL
\* substring, inclusive status range, inclusive time range, exact feature
\* area, exact tenant id), fields that are absent constraining nothing,
\* also when statusMin or statusMax is 0, in the order of getAllLogs().
C19_FilterComposition ==
  [][app'.filter # app.filter \/ app'.filtered # app.filtered =>
       app'.filtered =
         SelectSeq(getAllLogs(logStore'),
                   LAMBDA log : Satisfies(log, app'.filter))]_vars

\* the logs were asked for with statusMax = 0 over a store that has an
\* entry of a status above 0
C19_Witness ==
  /\ app.filter.statusMax = 0
  /\ \E i \in 1..Len(logStore) : logStore[i].status > 0
  /\ \E i \in 1..Len(logStore) : logStore[i].status = 0

\* what request() returns for the way its last attempt ended, whatever
\* the storage does: success, status and data
ResultFor(call) ==
  IF call.outcomes # <<>> /\ LastOutcome(call) > 0
  THEN LET ok == LastOutcome(call) >= 200 /\ LastOutcome(call) <= 299
           body == call.result.logEntry.responseBody
       IN [success |-> ok, status |-> LastOutcome(call),
           data |-> IF ok /\ body.fmt = "json" THEN body ELSE NoBody]
  ELSE [success |-> FALSE, status |-> 0, data |-> NoBody]

C21_RedactionIdempotent ==
  /\ mask.twice = mask.once
  /\ \A key \in DOMAIN mask.headers :
       mask.headers[key] = Marker => mask.once.headers[key] = Marker
  /\ \A leaf \in mask.body.leaves :
       leaf.val = Marker => maskLeaf(leaf).val = Marker
  /\ mask.chars = <<REDACTED>> => mask.once.str.chars = <<REDACTED>>

\* a body that is not JSON was redacted, and what came back is JSON
C21_Witness ==
  /\ mask.fn = "maskJsonStringOf"
  /\ ~isJson(mask.chars)
  /\ mask.once.str.fmt = "text"
  /\ isJson(mask.once.str.chars)

\* the fields of a JSON body whose key is in the body denylist
DenylistedFields(body) ==
  {leaf \in body.leaves : leaf.path[Len(leaf.path)] \in SENSITIVE_FIELDS}

\* C22: redaction is complete.  For every JSON body and every field whose
\* key is in the body denylist, at any depth, in nested objects and in
\* arrays, what maskJsonString returns has the marker in the place of the
\* field's value, and the value occurs nowhere in it.
C22_RedactionComplete ==
  mask.fn = "maskJsonString" =>
    \A field \in DenylistedFields(mask.body) :
      /\ Leaf(field.path, Marker) \in mask.once.body.leaves
      /\ field.val # Marker =>
           \A leaf \in mask.once.body.leaves : leaf.val # field.val

\* a body was redacted that has a secret under a denylisted key inside an
\* array, and the same string under a key that is not denylisted
C22_Witness ==
  /\ mask.fn = "maskJsonString"
  /\ \E field \in DenylistedFields(mask.body), leaf \in mask.body.leaves :
       /\ field.path = <<"items", "0", "client_secret">>
       /\ leaf.path = <<"data", "note">>
       /\ field.val = leaf.val
       /\ field.val = SecretStr("tenant")
       /\ Leaf(field.path, Marker) \in mask.once.body.leaves

\* C23: the latest-call cache has one slot per feature area. Once a
\* request() for an area has returned and no other call has completed, the
\* area's slot holds the entry of that call's final outcome (or nothing,
\* after clearLatestCall). A slot only ever holds an entry of its own area;
\* a step that empties a slot changes no other slot and not the Log Store;
\* a step that empties the Log Store changes no slot.
C23_Final ==
  \A c \in Calls :
    (/\ calls[c].pc = "done"
     /\ \A d \in Calls \ {c} : calls[d].pc \notin {"done", "returned"})
    => latestCalls[calls[c].options.featureArea]
         \in {NoEntry, calls[c].result.logEntry}

C23_Slots ==
  /\ DOMAIN latestCalls = FeatureArea
  /\ \A area \in FeatureArea :
       latestCalls[area] # NoEntry => latestCalls[area].featureArea = area

C23_Frame ==
  /\ \A area \in FeatureArea :
       (latestCalls'[area] # latestCalls[area] /\ latestCalls'[area] # NoEntry)
       => \E c \in Calls : /\ calls[c].pc \notin {"idle", "returned"}
                           /\ calls[c].options.featureArea = area
                           /\ latestCalls'[area].requestId = calls[c].requestId
  /\ \A area \in FeatureArea :
       (latestCalls[area] # NoEntry /\ latestCalls'[area] = NoEntry)
       => /\ logStore' = logStore
          /\ \A other \in FeatureArea \ {area} :
               latestCalls'[other] = latestCalls[other]
  /\ (logStore # <<>> /\ logStore' = <<>>) => latestCalls' = latestCalls

C23_LatestCall == [](C23_Final /\ C23_Slots) /\ [][C23_Frame]_vars

\* a call has returned, and a second call for the same area, still
\* retrying, has written the slot since
C23_Witness ==
  \E c, d \in Calls :
    /\ calls[c].pc = "done"
    /\ calls[d].pc = "sleeping"
    /\ calls[d].options.featureArea = calls[c].options.featureArea
    /\ latestCalls[calls[c].options.featureArea].requestId
         = calls[d].requestId
    /\ calls[d].requestId # calls[c].requestId

\* C24: for each token type the in-flight marker is non-null exactly while
\* a token fetch of that type is unresolved, and it names that fetch; nobody
\* waits on a fetch that has resolved. The step that resolves a fetch clears
\* the marker and caches what was fetched: the token on success, nothing on
\* failure. A getToken without a valid token and without a marker starts a
\* new fetch. Every marker is cleared in the end.
C24_Marker ==
  /\ \A type \in TokenTypes :
       /\ refreshPromises[type] # 0
          <=> \E f \in DOMAIN tokenFetches :
                tokenFetches[f].type = type /\ tokenFetches[f].state = "pending"
       /\ refreshPromises[type] # 0
          => /\ tokenFetches[refreshPromises[type]].type = type
             /\ tokenFetches[refreshPromises[type]].state = "pending"
  /\ \A c \in Calls :
       calls[c].pc \in {"tokenFetch", "awaitToken"}
       => tokenFetches[calls[c].promise].state = "pending"
  /\ force.pc \in {"tokenFetch", "awaitToken"}
       => tokenFetches[force.promise].state = "pending"

C24_Resolve ==
  \A f \in DOMAIN tokenFetches :
    (tokenFetches[f].state = "pending" /\ tokenFetches'[f].state # "pending")
    => LET type == tokenFetches[f].type
       IN /\ refreshPromises'[type] = 0
          /\ tokens'[type].present
             => tokens'[type].accessToken = tokenFetches[f].requestId
          /\ tokenFetches'[f].state = "resolved"
             => tokens'[type] = tokenFetches'[f].result
          /\ tokenFetches[f].owner = 0
             => tokens'[type].present = force'.produced

C24_NewFetch ==
  \A c \in Calls :
    (/\ calls[c].pc = "idle"
     /\ calls'[c].pc # "idle"
     /\ ~calls'[c].options.skipAuth
     /\ ~isTokenValid(tokens[calls'[c].options.tokenType], now)
     /\ refreshPromises[calls'[c].options.tokenType] = 0)
    => /\ Len(tokenFetches') = Len(tokenFetches) + 1
       /\ refreshPromises'[calls'[c].options.tokenType] = Len(tokenFetches')
       /\ tokenFetches'[Len(tokenFetches')].state = "pending"

C24_MarkerLifecycle ==
  /\ []C24_Marker
  /\ [][C24_Resolve /\ C24_NewFetch]_vars
  /\ \A type \in TokenTypes :
       (refreshPromises[type] # 0) ~> (refreshPromises[type] = 0)

\* a fetch has failed, the marker was cleared and nothing is cached, and a
\* later getToken has started a new fetch of the same type
C24_Witness ==
  \E f, g \in DOMAIN tokenFetches :
    /\ f < g
    /\ tokenFetches[f].type = tokenFetches[g].type
    /\ tokenFetches[f].state = "resolved"
    /\ ~tokenFetches[f].result.present
    /\ tokenFetches[g].state = "pending"
    /\ refreshPromises[tokenFetches[g].type] = g
    /\ ~tokens[tokenFetches[g].type].present

\* C25: every entry in the Log Store has a featureArea of the closed
\* enumeration FeatureArea, the entries of token-endpoint calls included.
C25_FeatureAreaClosed ==
  \A i \in DOMAIN logStore : logStore[i].featureArea \in FeatureArea

\* the entry of a token-endpoint call is in the Log Store
C25_Witness ==
  \E i \in DOMAIN logStore :
    /\ logStore[i].requestId.pfx = "oauth"
    /\ logStore[i].url.base = getTokenUrl

\* C26: every entry in the Log Store records the upstream URL and never a
\* path of the local proxy, with and without the development proxy, for
\* the calls of request() and for the token-endpoint calls.
ProxyPaths ==
  {PROXY_API_BASE_URL, PROXY_SUBSCRIPTION_API_URL, PROXY_TOKEN_URL}

C26_LogicalUrl ==
  \A i \in DOMAIN logStore : logStore[i].url.base \notin ProxyPaths

\* in the development build a resource call and a token-endpoint call are
\* in the Log Store
C26_Witness ==
  /\ useProxy
  /\ \E i \in DOMAIN logStore : logStore[i].requestId.pfx = "oauth"
  /\ \E i \in DOMAIN logStore :
       /\ logStore[i].requestId.pfx = "req"
       /\ logStore[i].status = 200

\* C27: a fetched token expires expires_in seconds after the instant its
\* fetch started, however long the token endpoint took to answer: the
\* token a resolved fetch produced, and the cached token that came from
\* it, have expiresAt = the fetch's start + expires_in * 1000, for an
\* expires_in the endpoint can answer.
GrantedMs ==
  {reply.expires_in * 1000 : reply \in {a \in TokenReplies : a.kind = "ok"}}

C27_ExpiryFromFetchStart ==
  \A f \in DOMAIN tokenFetches :
    (tokenFetches[f].state = "resolved" /\ tokenFetches[f].result.present)
    => /\ tokenFetches[f].result.expiresAt - tokenFetches[f].startTime
            \in GrantedMs
       /\ \A type \in TokenTypes :
            (/\ tokens[type].present
             /\ tokens[type].accessToken = tokenFetches[f].requestId)
            => tokens[type].expiresAt - tokenFetches[f].startTime
                 \in GrantedMs

\* a token was fetched and cached, and the token endpoint took its time
C27_Witness ==
  \E f \in DOMAIN tokenFetches :
    /\ tokenFetches[f].state = "resolved"
    /\ tokenFetches[f].result.present
    /\ tokens[tokenFetches[f].type] = tokenFetches[f].result
    /\ lastRefreshTimes[tokenFetches[f].type] > tokenFetches[f].startTime

\* C28: the Log Store is append-only with unique requestIds. No two stored
\* entries share a requestId, and getLogCount() is the number of entries
\* getAllLogs() returns. In every step the entries stored before are still
\* there, unchanged and in their places, or the store has been emptied by
\* clearAllLogs, which changes nothing else and after which the count is 0
\* and getAllLogs() is empty.
C28_Unique ==
  \A i, j \in DOMAIN logStore :
    logStore[i].requestId = logStore[j].requestId => i = j

C28_Count == getLogCount(logStore) = Len(getAllLogs(logStore))

C28_Step ==
  \/ /\ Len(logStore') >= Len(logStore)
     /\ \A i \in DOMAIN logStore : logStore'[i] = logStore[i]
  \/ /\ logStore' = <<>>
     /\ storage = "working"
     /\ UNCHANGED <<now, ticks, useProxy, tokens, lastRefreshTimes,
                    refreshPromises, tokenFetches, requestIdCounter,
                    latestCalls, calls, issued, op, app, force, storage,
                    mask>>

C28_AppendOnly == [](C28_Unique /\ C28_Count) /\ [][C28_Step]_vars

\* a retried attempt was stored, and the add of the next attempt's entry,
\* with the same requestId, was refused
C28_Witness ==
  \E c \in Calls :
    /\ Len(calls[c].outcomes) >= 2
    /\ calls[c].pc = "done"
    /\ \E i \in DOMAIN logStore :
         /\ logStore[i].requestId = calls[c].requestId
         /\ logStore[i].status # calls[c].result.status

\* C29: an invalidation is not undone by an older refresh. The token of a
\* fetch that was under way when clearToken was called for its type is not
\* in the cache after the fetch has resolved.
C29_ClearNotUndone ==
  \A f \in DOMAIN tokenFetches :
    (tokenFetches[f].state = "resolved" /\ tokenFetches[f].cleared)
    => ~(/\ tokens[tokenFetches[f].type].present
         /\ tokens[tokenFetches[f].type].accessToken
              = tokenFetches[f].requestId)

\* clearToken was called while a fetch was under way, and the fetch has
\* resolved with a token
C29_Witness ==
  \E f \in DOMAIN tokenFetches :
    /\ tokenFetches[f].state = "resolved"
    /\ tokenFetches[f].cleared
    /\ tokenFetches[f].result.present

\* C30: the token types are independent. A step that changes the cached
\* token, the in-flight marker or the last-refresh instant of one type
\* changes none of them for the other type, and the request() invocations
\* and the forced refresh that move in this step are of that type. Whoever
\* waits for a token waits on a fetch of its own type, and gets the result
\* of that fetch.
TokenStateOf(type) ==
  <<tokens[type], refreshPromises[type], lastRefreshTimes[type]>>

C30_Waits ==
  /\ \A c \in Calls :
       calls[c].pc \in {"tokenFetch", "awaitToken"}
       => tokenFetches[calls[c].promise].type = calls[c].options.tokenType
  /\ force.pc \in {"tokenFetch", "awaitToken"}
       => tokenFetches[force.promise].type = force.type

C30_Step ==
  \A type \in TokenTypes :
    TokenStateOf(type)' # TokenStateOf(type)
    => /\ \A other \in TokenTypes \ {type} :
            TokenStateOf(other)' = TokenStateOf(other)
       /\ \A c \in Calls :
            calls'[c] # calls[c] => calls'[c].options.tokenType = type
       /\ force' # force => force'.type = type
       /\ \A c \in Calls :
            (/\ calls[c].pc \in {"tokenFetch", "awaitToken"}
             /\ calls'[c].pc = "fetching")
            => calls'[c].requestHeaders["Authorization"]
                 = BearerStr(tokenFetches[calls[c].promise].requestId)

C30_TypesIndependent == []C30_Waits /\ [][C30_Step]_vars

\* a refresh of one type is in flight while a token of the other type is
\* cached, and a call of each type is under way
C30_Witness ==
  \E type, other \in TokenTypes :
    /\ type # other
    /\ refreshPromises[type] # 0
    /\ tokens[other].present
    /\ \E c, d \in Calls :
         /\ calls[c].pc = "tokenFetch"
         /\ calls[c].options.tokenType = type
         /\ calls[d].pc = "fetching"
         /\ calls[d].options.tokenType = other

====
